---- MODULE Spec2Model ----
(***************************************************************************)
(* Workflow execution engine: the graph walk of WorkflowEngine in its two  *)
(* implementations, engine.ts (React Flow nodes/edges, onLog sink) and     *)
(* js/workflow-engine.js (canvas nodes/connections, executionLog).         *)
(* The variable impl selects the implementation; every operator that       *)
(* differs between the two is defined once per implementation.             *)
(***************************************************************************)
EXTENDS Integers, Sequences, FiniteSets, TLC

VARIABLES impl, nodes, edges, pc, pending, stack, variables, results, logs,
          outcome, isRunning, execs, calls, run, owner, parked, evaluated,
          canvas, exported

vars == <<impl, nodes, edges, pc, pending, stack, variables, results, logs,
          outcome, isRunning, execs, calls, run, owner, parked, evaluated,
          canvas, exported>>

\* The state outside the engine: the last evaluator call and the editor.
aside == <<evaluated, canvas, exported>>

\* Cap on the depth of the executeNode recursion (cyclic graphs never return).
MaxDepth == 4

(***************************************************************************)
(* Values.  A JavaScript value is a record of its type tag, its number,    *)
(* its text and whether the text is written with a leading "$".            *)
(***************************************************************************)
Undefined == [t |-> "undefined", n |-> 0, s |-> "", d |-> FALSE]
Null == [t |-> "null", n |-> 0, s |-> "", d |-> FALSE]
Absent == [t |-> "absent", n |-> 0, s |-> "", d |-> FALSE]
Num(k) == [t |-> "number", n |-> k, s |-> "", d |-> FALSE]
Str(x) == [t |-> "string", n |-> 0, s |-> x, d |-> FALSE]
Ref(x) == [t |-> "string", n |-> 0, s |-> x, d |-> TRUE]
Bool(b) == [t |-> "boolean", n |-> IF b THEN 1 ELSE 0, s |-> "", d |-> FALSE]
Obj(tag) == [t |-> "object", n |-> 0, s |-> tag, d |-> FALSE]
NaN == [t |-> "NaN", n |-> 0, s |-> "", d |-> FALSE]

\* JavaScript truthiness, as used by `!currentResult` and `result && ...`.
Truthy(v) ==
    CASE v.t = "boolean" -> v.n = 1
      [] v.t = "number" -> v.n # 0
      [] v.t = "string" -> (v.d \/ v.s # "")
      [] v.t = "object" -> TRUE
      [] v.t = "array" -> TRUE
      [] OTHER -> FALSE

\* An array value: items is the sequence of its elements.
Arr(xs) == [t |-> "array", n |-> 0, s |-> "", d |-> FALSE, items |-> xs]

\* String(v), and Array.prototype.join, which writes null and undefined as
\* the empty text.
RECURSIVE StringOf(_)
RECURSIVE JoinText(_, _)
StringOf(v) ==
    CASE v.t = "string" -> (IF v.d THEN "$" \o v.s ELSE v.s)
      [] v.t = "number" -> ToString(v.n)
      [] v.t = "boolean" -> (IF v.n = 1 THEN "true" ELSE "false")
      [] v.t = "null" -> "null"
      [] v.t = "NaN" -> "NaN"
      [] v.t = "array" -> JoinText(v.items, ",")
      [] v.t = "object" -> "[object Object]"
      [] OTHER -> "undefined"
JoinText(xs, sep) ==
    IF xs = <<>> THEN ""
    ELSE LET item == IF xs[1].t \in {"null", "undefined"} THEN "" ELSE StringOf(xs[1])
         IN  IF Len(xs) = 1 THEN item ELSE item \o sep \o JoinText(Tail(xs), sep)

\* text.indexOf(pattern): the first position, from 0, or -1.
TextIndexOf(text, pattern) ==
    LET hits == {i \in 1..(Len(text) - Len(pattern) + 1) :
                    SubSeq(text, i, i + Len(pattern) - 1) = pattern}
    IN  IF hits = {} THEN -1 ELSE (CHOOSE i \in hits : \A j \in hits : i <= j) - 1

\* The numerals Number() reads in a text.
Numerals == -20..20

\* Number(v): the empty text is 0, a numeral its number, any other text NaN;
\* an array is read through its text.
ToNumber(v) ==
    CASE v.t = "number" -> v
      [] v.t = "boolean" -> Num(v.n)
      [] v.t = "null" -> Num(0)
      [] v.t \in {"string", "array"} ->
           LET text == StringOf(v)
           IN  IF text = "" THEN Num(0)
               ELSE IF \E k \in Numerals : ToString(k) = text
                    THEN Num(CHOOSE k \in Numerals : ToString(k) = text)
                    ELSE NaN
      [] OTHER -> NaN

\* a > b on the results of Number(): false when either side is NaN.
NumGreater(a, b) == a.t = "number" /\ b.t = "number" /\ a.n > b.n
NumGreaterOrEqual(a, b) == a.t = "number" /\ b.t = "number" /\ a.n >= b.n

\* a == b: values of one type are compared as they are, null and undefined
\* equal each other only, anything else is compared as numbers.
LooseEqual(a, b) ==
    IF a.t = b.t THEN a = b
    ELSE IF a.t \in {"null", "undefined"} \/ b.t \in {"null", "undefined"}
         THEN a.t \in {"null", "undefined"} /\ b.t \in {"null", "undefined"}
         ELSE ToNumber(a) # NaN /\ ToNumber(a) = ToNumber(b)

\* Names of context variables: the trigger's variable and the node labels.
LabelOf == <<"n1", "n2", "n3", "n4">>
VarNames == {"x", "y", "n1", "n2", "n3", "n4"}
EmptyVars == [v \in VarNames |-> Absent]

\* context[name]: a missing key reads as undefined.
Lookup(ctx, name) ==
    IF name \in VarNames /\ ctx[name] # Absent THEN ctx[name] ELSE Undefined

\* A regular expression source the RegExp constructor rejects.
BadPattern == "("

(***************************************************************************)
(* Expression evaluator of operators.ts.  An evaluation yields             *)
(* [throws, val]: throws is TRUE when the code raises an Error.            *)
(***************************************************************************)
Ok(b) == [throws |-> FALSE, val |-> b]
Raise == [throws |-> TRUE, val |-> FALSE]
\* An Error that is told from other Errors by its kind.
RaiseWith(e) == [throws |-> TRUE, val |-> FALSE, error |-> e]

\* The lookup returned as it is, undefined on a miss.
resolveValueNoFallback(value, ctx) ==
    IF value.t = "string" /\ value.d THEN Lookup(ctx, value.s) ELSE value

resolveValue(value, ctx) ==
    IF value.t = "string" /\ value.d
    THEN IF Lookup(ctx, value.s) # Undefined THEN Lookup(ctx, value.s) ELSE value
    ELSE value

evaluateCondition(condition, ctx) ==
    LET left == resolveValue(condition.leftOperand, ctx)
        right == resolveValue(condition.rightOperand, ctx)
    IN  CASE condition.operator = "equals" -> Ok(left = right)
          [] condition.operator = "notEquals" -> Ok(left # right)
          [] condition.operator = "greaterThan" ->
                Ok(NumGreater(ToNumber(left), ToNumber(right)))
          [] condition.operator = "lessThan" ->
                Ok(NumGreater(ToNumber(right), ToNumber(left)))
          [] condition.operator = "greaterOrEqual" ->
                Ok(NumGreaterOrEqual(ToNumber(left), ToNumber(right)))
          [] condition.operator = "lessOrEqual" ->
                Ok(NumGreaterOrEqual(ToNumber(right), ToNumber(left)))
          [] condition.operator = "contains" ->
                Ok(TextIndexOf(StringOf(left), StringOf(right)) >= 0)
          [] condition.operator = "startsWith" ->
                Ok(SubSeq(StringOf(left), 1, Len(StringOf(right))) = StringOf(right))
          [] condition.operator = "endsWith" ->
                Ok(/\ Len(StringOf(right)) <= Len(StringOf(left))
                   /\ SubSeq(StringOf(left),
                             Len(StringOf(left)) - Len(StringOf(right)) + 1,
                             Len(StringOf(left))) = StringOf(right))
          [] condition.operator = "matches" /\ right = Str(BadPattern) ->
                RaiseWith("Invalid regular expression")
          [] condition.operator = "matches" -> Ok(left = right)
          [] OTHER -> RaiseWith("Unknown comparison operator")

\* Left fold of the operand results with acc !== val, from false.
RECURSIVE XorFold(_)
XorFold(rs) ==
    IF rs = <<>> THEN FALSE
    ELSE XorFold(SubSeq(rs, 1, Len(rs) - 1)) # rs[Len(rs)]

\* XOR taken as "exactly one operand is true".
XorExactlyOne(rs) == Cardinality({i \in 1..Len(rs) : rs[i]}) = 1

\* operandResults.reduce((acc, val) => acc !== val, false)
XorReduce(rs) == XorFold(rs)

\* NOT taken over the last operand.
combineNotLast(operator, bs) ==
    CASE operator = "AND" -> Ok(\A i \in 1..Len(bs) : bs[i])
      [] operator = "OR" -> Ok(\E i \in 1..Len(bs) : bs[i])
      [] operator = "NOT" -> Ok(IF Len(bs) = 0 THEN TRUE ELSE ~bs[Len(bs)])
      [] operator = "XOR" -> Ok(XorReduce(bs))
      [] OTHER -> RaiseWith("Unknown boolean operator")

\* The switch on expression.operator over the operand results:
\* every, some, !operandResults[0], reduce; any other operator raises.
combineOperands(operator, bs) ==
    CASE operator = "AND" -> Ok(\A i \in 1..Len(bs) : bs[i])
      [] operator = "OR" -> Ok(\E i \in 1..Len(bs) : bs[i])
      [] operator = "NOT" -> Ok(IF Len(bs) = 0 THEN TRUE ELSE ~bs[1])
      [] operator = "XOR" -> Ok(XorReduce(bs))
      [] OTHER -> RaiseWith("Unknown boolean operator")

\* The children are evaluated up to the first one that decides the result.
EvaluatedUntilDecided(operator, rs) ==
    {i \in 1..Len(rs) :
        \A j \in 1..(i - 1) :
            /\ ~rs[j].throws
            /\ operator = "AND" => rs[j].val
            /\ operator = "OR" => ~rs[j].val
            /\ operator # "NOT"}

\* operands.map(...), conditions.map(...): every child is evaluated, in
\* list order, before the results are combined.
Evaluated(operator, rs) == 1..Len(rs)

\* The Error of the first child that raises, of those evaluated.
Raising(operator, rs) == {i \in Evaluated(operator, rs) : rs[i].throws}
FirstRaised(operator, rs) ==
    rs[CHOOSE i \in Raising(operator, rs) : \A j \in Raising(operator, rs) : i <= j]

RECURSIVE evaluateBooleanExpression(_, _)
evaluateBooleanExpression(expression, ctx) ==
    CASE expression.type = "value" -> Ok(expression.value)
      [] expression.type = "condition" -> evaluateCondition(expression.condition, ctx)
      [] expression.type = "operator" ->
           LET rs == [i \in 1..Len(expression.operands) |->
                          evaluateBooleanExpression(expression.operands[i], ctx)]
               bs == [i \in 1..Len(rs) |-> rs[i].val]
           IN  IF Raising(expression.operator, rs) # {}
               THEN FirstRaised(expression.operator, rs)
               ELSE combineOperands(expression.operator, bs)
      [] OTHER -> Ok(FALSE)

(***************************************************************************)
(* BooleanBuilder of js/operators.js: groups of conditions on variables.   *)
(***************************************************************************)
\* parseValue: "true"/"false" to booleans, numeric text to a number.
parseValue(value) ==
    IF value = Str("true") THEN Bool(TRUE)
    ELSE IF value = Str("false") THEN Bool(FALSE)
    ELSE IF ToNumber(value) # NaN THEN ToNumber(value)
    ELSE value

BuilderCondition(condition, ctx) ==
    LET value == Lookup(ctx, condition.variable)
        compareValue == parseValue(condition.value)
    IN  CASE condition.operator = "==" -> Ok(LooseEqual(value, compareValue))
          [] condition.operator = "!=" -> Ok(~LooseEqual(value, compareValue))
          [] condition.operator = ">" ->
                Ok(NumGreater(ToNumber(value), ToNumber(compareValue)))
          [] condition.operator = "<" ->
                Ok(NumGreater(ToNumber(compareValue), ToNumber(value)))
          [] condition.operator = ">=" ->
                Ok(NumGreaterOrEqual(ToNumber(value), ToNumber(compareValue)))
          [] condition.operator = "<=" ->
                Ok(NumGreaterOrEqual(ToNumber(compareValue), ToNumber(value)))
          [] condition.operator = "contains" ->
                Ok(TextIndexOf(StringOf(value), StringOf(compareValue)) >= 0)
          [] condition.operator = "startsWith" ->
                Ok(SubSeq(StringOf(value), 1, Len(StringOf(compareValue)))
                       = StringOf(compareValue))
          [] condition.operator = "endsWith" ->
                Ok(/\ Len(StringOf(compareValue)) <= Len(StringOf(value))
                   /\ SubSeq(StringOf(value),
                             Len(StringOf(value)) - Len(StringOf(compareValue)) + 1,
                             Len(StringOf(value))) = StringOf(compareValue))
          [] condition.operator = "matches" /\ compareValue = Str(BadPattern) ->
                RaiseWith("Invalid regular expression")
          [] condition.operator = "matches" -> Ok(value = compareValue)
          [] OTHER -> Ok(FALSE)

applyOperator(operator, rs) ==
    CASE operator = "AND" -> \A i \in 1..Len(rs) : rs[i]
      [] operator = "OR" -> \E i \in 1..Len(rs) : rs[i]
      [] operator = "NAND" -> ~(\A i \in 1..Len(rs) : rs[i])
      [] operator = "NOR" -> ~(\E i \in 1..Len(rs) : rs[i])
      [] operator = "XOR" -> Cardinality({i \in 1..Len(rs) : rs[i]}) = 1
      [] operator = "XNOR" -> Cardinality({i \in 1..Len(rs) : rs[i]}) # 1
      [] OTHER -> FALSE

RECURSIVE evaluateGroup(_, _)
evaluateGroup(group, ctx) ==
    IF Len(group.conditions) = 0 THEN Ok(TRUE)
    ELSE LET rs == [i \in 1..Len(group.conditions) |->
                       IF group.conditions[i].type = "group"
                       THEN evaluateGroup(group.conditions[i], ctx)
                       ELSE BuilderCondition(group.conditions[i], ctx)]
         IN  IF Raising(group.operator, rs) # {}
             THEN FirstRaised(group.operator, rs)
             ELSE Ok(applyOperator(group.operator, [i \in 1..Len(rs) |-> rs[i].val]))

(***************************************************************************)
(* Operator library of operators.ts.  A call yields [throws, val, array]:  *)
(* val is the value returned and array what the array that was passed in   *)
(* holds after the call.  The inputs of a call are a record of values; an  *)
(* input that is not given reads as undefined.                             *)
(***************************************************************************)
In(inputs, key) == IF key \in DOMAIN inputs THEN inputs[key] ELSE Undefined

Returned(v, inputs) == [throws |-> FALSE, val |-> v, array |-> In(inputs, "array")]
Thrown(inputs) == [throws |-> TRUE, val |-> Undefined, array |-> In(inputs, "array")]

\* a || b
OrElse(a, b) == IF Truthy(a) THEN a ELSE b

\* The value of an operation whose computation is not followed further.
Opaque(category, operation) == Obj(category \o "." \o operation)

MathOperations ==
    {"add", "subtract", "multiply", "divide", "modulo", "power", "sqrt", "abs",
     "round", "floor", "ceil", "min", "max", "random"}
StringOperations ==
    {"concat", "substring", "replace", "split", "join", "toUpperCase",
     "toLowerCase", "trim", "length", "indexOf", "slice"}
ArrayOperations ==
    {"push", "pop", "shift", "unshift", "slice", "splice", "filter", "map",
     "reduce", "find", "sort", "reverse", "length", "includes", "indexOf", "join"}
DateOperations ==
    {"now", "addDays", "subtractDays", "format", "parse", "getDay", "getMonth",
     "getYear", "getHour", "getMinute", "diff"}

\* Arithmetic on the results of Number(): NaN when either side is NaN.
Arith(operation, a, b) ==
    IF a = NaN \/ b = NaN THEN NaN
    ELSE CASE operation = "add" -> Num(a.n + b.n)
           [] operation = "subtract" -> Num(a.n - b.n)
           [] OTHER -> Num(a.n * b.n)

executeMathOperation(operation, inputs) ==
    LET a == ToNumber(In(inputs, "a"))
        b == ToNumber(In(inputs, "b"))
        value == ToNumber(In(inputs, "value"))
    IN  CASE operation \in {"add", "subtract", "multiply"} ->
               Returned(Arith(operation, a, b), inputs)
          [] operation = "abs" ->
               Returned(IF value = NaN THEN NaN
                        ELSE Num(IF value.n < 0 THEN -value.n ELSE value.n), inputs)
          [] operation \in MathOperations -> Returned(Opaque("math", operation), inputs)
          [] OTHER -> Thrown(inputs)

\* The position slice() starts or ends at: NaN counts as 0, a negative
\* number counts from the end.
RelIndex(k, len) ==
    IF k = NaN THEN 0
    ELSE IF k.n < 0 THEN (IF len + k.n < 0 THEN 0 ELSE len + k.n)
    ELSE IF k.n > len THEN len ELSE k.n

\* slice(Number(start), end ? Number(end) : undefined) of a text or a sequence.
SliceOf(xs, start, end) ==
    LET from == RelIndex(ToNumber(start), Len(xs))
        to == IF Truthy(end) THEN RelIndex(ToNumber(end), Len(xs)) ELSE Len(xs)
    IN  SubSeq(xs, from + 1, to)

executeStringOperation(operation, inputs) ==
    LET str == In(inputs, "str")
        array == In(inputs, "array")
    IN  CASE operation = "concat" ->
               Returned(Str(StringOf(In(inputs, "str1")) \o StringOf(In(inputs, "str2"))),
                        inputs)
          [] operation = "join" ->
               Returned(IF array.t = "array"
                        THEN Str(JoinText(array.items,
                                          StringOf(OrElse(In(inputs, "separator"), Str(",")))))
                        ELSE Str(""), inputs)
          [] operation = "length" -> Returned(Num(Len(StringOf(str))), inputs)
          [] operation = "indexOf" ->
               Returned(Num(TextIndexOf(StringOf(str), StringOf(In(inputs, "searchValue")))),
                        inputs)
          [] operation = "slice" ->
               Returned(Str(SliceOf(StringOf(str), In(inputs, "start"), In(inputs, "end"))),
                        inputs)
          [] operation \in StringOperations ->
               Returned(Opaque("string", operation), inputs)
          [] OTHER -> Thrown(inputs)

\* The order of the characters in the texts compared by sort().
Alphabet == " $,-.0123456789NO[]abcdefghijklmnopqrstuvwxyz"
CharPos(c) == CHOOSE i \in 1..Len(Alphabet) : SubSeq(Alphabet, i, i) = c

RECURSIVE TextLess(_, _)
TextLess(a, b) ==
    IF b = "" THEN FALSE
    ELSE IF a = "" THEN TRUE
    ELSE IF SubSeq(a, 1, 1) = SubSeq(b, 1, 1)
         THEN TextLess(SubSeq(a, 2, Len(a)), SubSeq(b, 2, Len(b)))
         ELSE CharPos(SubSeq(a, 1, 1)) < CharPos(SubSeq(b, 1, 1))

\* The default order of sort(): undefined last, anything else by its text.
SortsBefore(a, b) ==
    IF a.t = "undefined" THEN FALSE
    ELSE IF b.t = "undefined" THEN TRUE
    ELSE TextLess(StringOf(a), StringOf(b))

RECURSIVE Sorted(_)
Sorted(xs) ==
    IF xs = <<>> THEN <<>>
    ELSE LET rest == Sorted(Tail(xs))
             before == SelectSeq(rest, LAMBDA y : SortsBefore(y, Head(xs)))
             after == SelectSeq(rest, LAMBDA y : ~SortsBefore(y, Head(xs)))
         IN  before \o <<Head(xs)>> \o after

Reversed(xs) == [i \in 1..Len(xs) |-> xs[Len(xs) + 1 - i]]

\* a + b of JavaScript: a sum of numbers, or the two texts joined.
Plus(a, b) ==
    IF a.t \in {"string", "array", "object"} \/ b.t \in {"string", "array", "object"}
    THEN Str(StringOf(a) \o StringOf(b))
    ELSE Arith("add", ToNumber(a), ToNumber(b))

RECURSIVE ReduceSum(_, _)
ReduceSum(acc, xs) ==
    IF xs = <<>> THEN acc ELSE ReduceSum(Plus(acc, Head(xs)), Tail(xs))

\* What the methods that work in place (push, pop, shift, unshift, splice,
\* sort, reverse) leave in the array arr they are called on.
InPlace(operation, arr, inputs) ==
    LET value == In(inputs, "value")
        at == RelIndex(ToNumber(In(inputs, "start")), Len(arr))
        count == LET c == ToNumber(OrElse(In(inputs, "deleteCount"), Num(0)))
                 IN  IF c = NaN \/ c.n < 0 THEN 0
                     ELSE IF c.n > Len(arr) - at THEN Len(arr) - at ELSE c.n
    IN  CASE operation = "push" -> Append(arr, value)
          [] operation = "pop" -> SubSeq(arr, 1, Len(arr) - 1)
          [] operation = "shift" -> SubSeq(arr, 2, Len(arr))
          [] operation = "unshift" -> <<value>> \o arr
          [] operation = "splice" ->
               SubSeq(arr, 1, at) \o <<value>> \o SubSeq(arr, at + count + 1, Len(arr))
          [] operation = "sort" -> Sorted(arr)
          [] operation = "reverse" -> Reversed(arr)
          [] OTHER -> arr

\* The methods called on the array that was passed in.
ArrayAfterShared(operation, array, inputs) ==
    Arr(InPlace(operation, array.items, inputs))

\* const arr = [...array]: the methods work on a copy, the array that was
\* passed in keeps its items.
ArrayAfter(operation, array, inputs) == array

IndexIn(xs, v) ==
    LET hits == {i \in 1..Len(xs) : xs[i] = v}
    IN  IF hits = {} THEN -1 ELSE (CHOOSE i \in hits : \A j \in hits : i <= j) - 1

executeArrayOperation(operation, inputs) ==
    LET array == In(inputs, "array")
        value == In(inputs, "value")
        arr == array.items
        out(v) == [throws |-> FALSE, val |-> v,
                   array |-> ArrayAfter(operation, array, inputs)]
    IN  IF array.t # "array" THEN Thrown(inputs)
        ELSE CASE operation \in {"push", "pop", "shift", "unshift", "splice",
                                 "sort", "reverse"} ->
                    out(Arr(InPlace(operation, arr, inputs)))
               [] operation = "slice" ->
                    out(Arr(SliceOf(arr, In(inputs, "start"), In(inputs, "end"))))
               [] operation = "filter" -> out(Arr(SelectSeq(arr, LAMBDA item : item # value)))
               [] operation = "map" -> out(Arr(arr))
               [] operation = "reduce" -> out(ReduceSum(OrElse(value, Num(0)), arr))
               [] operation = "find" ->
                    out(IF IndexIn(arr, value) < 0 THEN Undefined ELSE value)
               [] operation = "length" -> out(Num(Len(arr)))
               [] operation = "includes" -> out(Bool(IndexIn(arr, value) >= 0))
               [] operation = "indexOf" -> out(Num(IndexIn(arr, value)))
               [] operation = "join" ->
                    out(Str(JoinText(arr, StringOf(OrElse(value, Str(","))))))
               [] OTHER -> Thrown(inputs)

\* The operations on dates read the clock or the host's locale.
executeDateOperation(operation, inputs) ==
    IF operation \in DateOperations THEN Returned(Opaque("date", operation), inputs)
    ELSE Thrown(inputs)

\* executeOperator: the inputs are resolved, then the first of the four
\* lists that holds the name of the operation decides the implementation.
executeOperator(config, ctx) ==
    LET resolvedInputs ==
            [key \in DOMAIN config.inputs |-> resolveValue(config.inputs[key], ctx)]
        operation == config.operation
    IN  CASE operation \in MathOperations -> executeMathOperation(operation, resolvedInputs)
          [] operation \in StringOperations ->
               executeStringOperation(operation, resolvedInputs)
          [] operation \in ArrayOperations ->
               executeArrayOperation(operation, resolvedInputs)
          [] operation \in DateOperations -> executeDateOperation(operation, resolvedInputs)
          [] OTHER -> Thrown(resolvedInputs)

(***************************************************************************)
(* Graphs.  A node is [type, cfg]; cfg names the node's configured data.   *)
(* An edge is [source, target, label]; in workflow-engine.js the label is  *)
(* the output port of the connection (connection.from.output).             *)
(***************************************************************************)
Edge(s, t, l) == [source |-> s, target |-> t, label |-> l]
Node(ty, c) == [type |-> ty, cfg |-> c]

\* Node payloads every position of a three-node graph ranges over.
Kinds ==
    { Node("trigger", "x10"), Node("action", "log"), Node("action", "delay"),
      Node("action", "setVariable"), Node("condition", "gt5"), Node("condition", "lt5"),
      Node("condition", "badregex"), Node("boolean", "gt5"),
      Node("operator", "bogus"), Node("operator", "add"),
      Node("webhook", "") }

\* Node payloads of the four-node graphs.
CoreKinds ==
    { Node("trigger", "x10"), Node("action", "delay"), Node("condition", "gt5"),
      Node("boolean", "lt5"), Node("webhook", "") }

SmallShapes ==
    { <<Edge(1, 2, "none"), Edge(2, 3, "true")>>,
      <<Edge(1, 2, "true"), Edge(1, 3, "false")>>,
      <<Edge(1, 2, "none"), Edge(1, 3, "none"), Edge(2, 3, "none")>>,
      <<Edge(1, 2, "none"), Edge(2, 3, "false"), Edge(2, 3, "none")>>,
      <<Edge(1, 2, "none"), Edge(2, 3, "none"), Edge(3, 1, "none")>>,
      <<Edge(1, 2, "none"), Edge(2, 3, "none"), Edge(3, 2, "none")>>,
      <<Edge(3, 1, "none"), Edge(2, 1, "other")>>,
      << >> }

LargeShapes ==
    { <<Edge(1, 2, "none"), Edge(2, 3, "true"), Edge(2, 4, "false")>>,
      <<Edge(1, 2, "none"), Edge(2, 3, "none"), Edge(1, 4, "none")>>,
      <<Edge(1, 2, "none"), Edge(1, 3, "none"), Edge(2, 4, "none"),
        Edge(3, 4, "none")>> }

\* Edge lists with an edge whose target, or whose source, names no node.
DanglingShapes ==
    { <<Edge(1, 2, "none"), Edge(2, 4, "true"), Edge(2, 3, "none")>>,
      <<Edge(4, 2, "none"), Edge(1, 3, "none")>> }

NodeIds == 1..Len(nodes)
TypeOf(n) == nodes[n].type

\* The condition a cfg stands for, as a Condition of types.ts.
ConditionOf(cfg) ==
    CASE cfg = "gt5" -> [leftOperand |-> Ref("x"), operator |-> "greaterThan",
                         rightOperand |-> Num(5)]
      [] cfg = "lt5" -> [leftOperand |-> Ref("x"), operator |-> "lessThan",
                         rightOperand |-> Num(5)]
      [] OTHER -> [leftOperand |-> Ref("x"), operator |-> "matches",
                   rightOperand |-> Str(BadPattern)]

\* The same condition as a BooleanBuilder group of js/operators.js.
GroupOf(cfg) ==
    [type |-> "group", operator |-> "AND", conditions |->
       << CASE cfg = "gt5" -> [type |-> "condition", variable |-> "x",
                               operator |-> ">", value |-> Str("5")]
            [] cfg = "lt5" -> [type |-> "condition", variable |-> "x",
                               operator |-> "<", value |-> Str("5")]
            [] OTHER -> [type |-> "condition", variable |-> "x",
                         operator |-> "matches", value |-> Str(BadPattern)] >>]

\* Object.assign(variables, {x: 10}) of a trigger node.
AssignTrigger(ctx, cfg) ==
    IF cfg = "x10" THEN [ctx EXCEPT !["x"] = Num(10)] ELSE ctx

LogEntry(n, lvl, m) == [node |-> n, level |-> lvl, msg |-> m]
\* nodeId 'workflow' of the engine's own entries; also "no node id at all".
NoNode == 0

(***************************************************************************)
(* Node handlers.  A handler run yields [kind, result, vars, logs]: kind   *)
(* is "ok", "throw" (the handler raised) or "suspend" (awaiting a timer);  *)
(* logs are the entries the handler wrote before it ended.                 *)
(***************************************************************************)
HOk(r, vs, ls) == [kind |-> "ok", result |-> r, vars |-> vs, logs |-> ls]
HThrow(vs, ls) == [kind |-> "throw", result |-> Undefined, vars |-> vs, logs |-> ls]
HSuspend(vs, ls) == [kind |-> "suspend", result |-> Undefined, vars |-> vs, logs |-> ls]

\* The operatorConfig a cfg stands for: inputs $x and 5, output y.
OperatorConfigOf(cfg) ==
    [operation |-> cfg, inputs |-> [a |-> Ref("x"), b |-> Num(5)], output |-> "y"]

\* The variable the array input is read from: the name after the "$" when
\* the variable holds a value, no name otherwise.
ArraySource(config, ctx) ==
    LET v == In(config.inputs, "array")
    IN  IF v.t = "string" /\ v.d /\ Lookup(ctx, v.s) # Undefined THEN v.s ELSE ""

\* engine.ts executeOperatorNode: the result of executeOperator, stored in
\* the output variable when one is configured.  The variable the array
\* input was read from holds the array that was passed in.
executeOperatorNode(config, ctx) ==
    LET r == executeOperator(config, ctx)
        src == ArraySource(config, ctx)
        seen == IF src = "" THEN ctx ELSE [ctx EXCEPT ![src] = r.array]
    IN  IF r.throws THEN [throws |-> TRUE, val |-> Undefined, vars |-> seen]
        ELSE [throws |-> FALSE, val |-> r.val,
              vars |-> IF config.output = "" THEN seen
                       ELSE [seen EXCEPT ![config.output] = r.val]]

\* workflow-engine.js executeOperator: operators.getOperator(category, name)
\* and operator.execute on the inputs $x and 5; an unknown name is not found.
getOperator(cfg, ctx) ==
    IF cfg = "add"
    THEN LET a == ToNumber(Lookup(ctx, "x"))
         IN  [throws |-> FALSE, val |-> IF a = NaN THEN NaN ELSE Num(a.n + 5)]
    ELSE [throws |-> TRUE, val |-> Undefined]

\* JSON.parse of a text: numbers, true, false, null; anything else fails.
JSONParse(v) ==
    CASE v.s = "5" -> Ok(Num(5))
      [] v.s = "10" -> Ok(Num(10))
      [] v.s = "true" -> Ok(Bool(TRUE))
      [] v.s = "false" -> Ok(Bool(FALSE))
      [] v.s = "null" -> Ok(Null)
      [] OTHER -> Raise

\* evaluateExpression of workflow-engine.js.
evaluateExpression(expression, ctx) ==
    IF expression = Undefined \/ expression = Null THEN Null
    ELSE IF expression.t # "string" THEN expression
    ELSE IF expression.d THEN Lookup(ctx, expression.s)
    ELSE IF JSONParse(expression).throws THEN expression
    ELSE JSONParse(expression).val

\* engine.ts executeAction, case setVariable: variables[name] = value, for
\* the name y and the value "$x".
SetVariable(ctx) == [ctx EXCEPT !["y"] = Ref("x")]

\* An unknown type treated as an Error.
UnknownTypeThrows(n, ctx) == HThrow(ctx, <<>>)

\* engine.ts executeNode, default case of the switch: a warning, result null.
UnknownTypeResult(n, ctx) ==
    HOk(Null, ctx, <<LogEntry(n, "warning", "Unknown node type")>>)

\* workflow-engine.js executeNode: no handler for the type, an Error is thrown.
NoHandler(n, ctx) == HThrow(ctx, <<>>)

\* engine.ts: the switch of executeNode with the five executeXxx methods.
TSHandler(n, ctx) ==
    LET ty == nodes[n].type
        cfg == nodes[n].cfg
    IN  CASE ty = "trigger" -> HOk(Obj("triggered"), AssignTrigger(ctx, cfg), <<>>)
          [] ty = "action" /\ cfg = "setVariable" ->
               HOk(Obj("set"), SetVariable(ctx),
                   <<LogEntry(n, "info", "Executing action")>>)
          [] ty = "action" ->
               HOk(IF cfg = "log" THEN Obj("logged") ELSE Obj("action"), ctx,
                   <<LogEntry(n, "info", "Executing action")>>)
          [] ty = "condition" ->
               LET r == evaluateCondition(ConditionOf(cfg), ctx)
               IN  IF r.throws THEN HThrow(ctx, <<>>)
                   ELSE HOk(Bool(r.val), ctx,
                            <<LogEntry(n, "info", "Condition evaluated")>>)
          [] ty = "boolean" ->
               LET r == evaluateBooleanExpression(
                            [type |-> "condition", condition |-> ConditionOf(cfg)], ctx)
               IN  IF r.throws THEN HThrow(ctx, <<>>)
                   ELSE HOk(Bool(r.val), ctx,
                            <<LogEntry(n, "info", "Boolean expression evaluated")>>)
          [] ty = "operator" ->
               LET r == executeOperatorNode(OperatorConfigOf(cfg), ctx)
               IN  IF r.throws THEN HThrow(r.vars, <<>>)
                   ELSE HOk(r.val, r.vars, <<>>)
          [] OTHER -> UnknownTypeResult(n, ctx)

\* workflow-engine.js: nodeHandlers[node.type] and the five executeXxx methods.
JSHandler(n, ctx) ==
    LET ty == nodes[n].type
        cfg == nodes[n].cfg
    IN  CASE ty = "trigger" ->
               HOk(Bool(TRUE), AssignTrigger(ctx, cfg),
                   <<LogEntry(NoNode, "info", "Trigger")>>)
          [] ty = "action" /\ cfg = "delay" ->
               HSuspend(ctx, <<LogEntry(NoNode, "info", "Action"),
                               LogEntry(NoNode, "info", "Delay")>>)
          [] ty = "action" /\ cfg = "setVariable" ->
               HOk(Bool(TRUE), [ctx EXCEPT !["y"] = evaluateExpression(Ref("x"), ctx)],
                   <<LogEntry(NoNode, "info", "Action"),
                     LogEntry(NoNode, "info", "Set variable")>>)
          [] ty = "action" ->
               HOk(Bool(TRUE), ctx, <<LogEntry(NoNode, "info", "Action"),
                                      LogEntry(NoNode, "info", "Log")>>)
          [] ty = "condition" ->
               LET r == evaluateGroup(GroupOf(cfg), ctx)
               IN  IF r.throws
                   THEN HThrow(ctx, <<LogEntry(NoNode, "info", "Evaluating condition")>>)
                   ELSE HOk(Bool(r.val), ctx,
                            <<LogEntry(NoNode, "info", "Evaluating condition"),
                              LogEntry(NoNode, "info", "Condition result")>>)
          [] ty = "boolean" ->
               LET r == evaluateGroup(GroupOf(cfg), ctx)
               IN  IF r.throws
                   THEN HThrow(ctx, <<LogEntry(NoNode, "info", "Boolean expression evaluation")>>)
                   ELSE HOk(Bool(r.val), ctx,
                            <<LogEntry(NoNode, "info", "Boolean expression evaluation"),
                              LogEntry(NoNode, "info", "Boolean result")>>)
          [] ty = "operator" ->
               LET r == getOperator(cfg, ctx)
               IN  IF r.throws
                   THEN HThrow(ctx, <<LogEntry(NoNode, "info", "Operator")>>)
                   ELSE HOk(r.val, [ctx EXCEPT !["y"] = r.val],
                            <<LogEntry(NoNode, "info", "Operator"),
                              LogEntry(NoNode, "info", "Operator result")>>)
          [] OTHER -> NoHandler(n, ctx)

Handler(n, ctx) == IF impl = "ts" THEN TSHandler(n, ctx) ELSE JSHandler(n, ctx)

(***************************************************************************)
(* Trigger discovery and branch routing.                                   *)
(***************************************************************************)
Indices(seq) == [i \in 1..Len(seq) |-> i]

\* Every node taken as a start node.
TSTriggersAll == Indices(nodes)

\* Only the edges whose source is a node of the graph count as incoming.
TSTriggersLiveEdges ==
    SelectSeq(Indices(nodes),
              LAMBDA n : ~(\E i \in 1..Len(edges) :
                              edges[i].target = n /\ edges[i].source \in 1..Len(nodes)))

\* engine.ts: nodes that are the target of no edge, in node order.
TSTriggers ==
    SelectSeq(Indices(nodes),
              LAMBDA n : ~(\E i \in 1..Len(edges) : edges[i].target = n))

\* Discovery by missing incoming connections instead of by type.
JSTriggersNoIncoming ==
    SelectSeq(Indices(nodes),
              LAMBDA n : ~(\E i \in 1..Len(edges) : edges[i].target = n))

\* workflow-engine.js: nodes of type trigger, in node order.
JSTriggers == SelectSeq(Indices(nodes), LAMBDA n : nodes[n].type = "trigger")

Triggers == IF impl = "ts" THEN TSTriggers ELSE JSTriggers

\* The outgoing edges taken last to first.
OutgoingReversed(n) ==
    LET out == SelectSeq(Indices(edges), LAMBDA i : edges[i].source = n)
    IN  [k \in 1..Len(out) |-> out[Len(out) + 1 - k]]

\* The indices of the edges that leave node n, in the order of the edge list.
Outgoing(n) == SelectSeq(Indices(edges), LAMBDA i : edges[i].source = n)

\* executeNextNodes without the test of the "false" label.
TSShouldExecuteTrueOnly(ty, res, label) ==
    IF ty = "condition" \/ ty = "boolean"
    THEN ~(label = "true" /\ ~Truthy(res))
    ELSE TRUE

\* engine.ts executeNextNodes: shouldExecute for one outgoing edge.
TSShouldExecute(ty, res, label) ==
    IF ty = "condition" \/ ty = "boolean"
    THEN ~((label = "true" /\ ~Truthy(res)) \/ (label = "false" /\ Truthy(res)))
    ELSE TRUE

\* workflow-engine.js executeNode: the branch test on connection.from.output.
JSShouldExecute(ty, res, label) ==
    IF ty = "condition"
    THEN (Truthy(res) /\ label = "true") \/ (~Truthy(res) /\ label = "false")
    ELSE TRUE

ShouldExecute(ty, res, label) ==
    IF impl = "ts" THEN TSShouldExecute(ty, res, label)
    ELSE JSShouldExecute(ty, res, label)

(***************************************************************************)
(* The run.  stack is the chain of suspended executeNode calls: a frame    *)
(* [exec, idx] is one call, idx the position of its for-loop in            *)
(* Outgoing(node).  execs records every executeNode call in dispatch       *)
(* order: its node, the call that dispatched it (parent, 0 for a trigger), *)
(* the edge it was dispatched along (via), its state, the handler's result *)
(* and the value results[parent's node] held when it was dispatched.       *)
(***************************************************************************)
NoResults == [n \in 1..4 |-> Absent]

\* No call of an evaluator has been made; the editor holds no node.
NoCall == [fn |-> "none"]
EmptyCanvas ==
    [nodes |-> <<>>, connections |-> <<>>, nodeIdCounter |-> 0, objects |-> 0,
     imports |-> 0, loaded |-> FALSE, cut |-> 0]
NoExport == [made |-> FALSE, nodes |-> <<>>, connections |-> <<>>]

Init ==
    /\ impl \in {"ts", "js"}
    /\ \/ edges \in SmallShapes /\ nodes \in [1..3 -> Kinds]
       \/ edges \in LargeShapes /\ nodes \in [1..4 -> CoreKinds]
       \/ edges \in DanglingShapes /\ nodes \in [1..3 -> CoreKinds] /\ impl = "ts"
    /\ pc = "idle"
    /\ pending = <<>>
    /\ stack = <<>>
    /\ variables = EmptyVars
    /\ results = NoResults
    /\ logs = <<>>
    /\ outcome = "none"
    /\ isRunning = FALSE
    /\ execs = <<>>
    /\ calls = 0
    /\ run = 0
    /\ owner = 0
    /\ parked = <<>>
    /\ evaluated = NoCall
    /\ canvas = EmptyCanvas
    /\ exported = NoExport

\* The caller's loop goes on while the callee is still suspended in a delay
\* (a call of executeNode that is not awaited).
CurrentNoAwait(stk) ==
    IF Len(stk) > 1 /\ execs[stk[Len(stk)].exec].state = "handler"
    THEN Len(stk) - 1 ELSE Len(stk)

\* The frame whose for-loop runs next: `await this.executeNode(...)` resumes
\* the caller only after the callee has returned, so it is the innermost call.
Current(stk) == Len(stk)

\* An execute() whose catch block rethrows.
FailureOutcomeRethrow == "rejected"

\* How execute() ends on an Error: engine.ts lets it propagate (the promise
\* rejects), workflow-engine.js catches it and returns {success: false, ...}.
FailureOutcome == IF impl = "ts" THEN "rejected" ELSE "failure"

\* The entries of an execute() call that finds no trigger.
StartLogs == <<LogEntry(NoNode, "info", "Execution started")>>

\* The Error for the missing trigger raised without an entry of its own.
NoTriggerLogsUnlogged == StartLogs

NoTriggerLogs == StartLogs \o <<LogEntry(NoNode, "error", "No trigger node")>>

\* context.logs of engine.ts: the array the constructor makes.  log() hands
\* every entry to onLog and no statement of the engine writes the array.
ContextLogs == <<>>

\* The ExecutionContext execute() resolves with and getContext() returns.
getContext == [variables |-> variables, results |-> results, logs |-> ContextLogs]

\* The Error passes the enclosing calls without an entry of theirs.
UnwindLogsNone(stk) == <<>>

\* The error entries written while an Error unwinds the calls of stk
\* (engine.ts: the catch of every enclosing executeNode, innermost first).
UnwindLogs(stk) ==
    [i \in 1..Len(stk) |->
        LogEntry(execs[stk[Len(stk) + 1 - i].exec].node, "error", "Error executing node")]

\* A single entry without the id of the failing node.
ErrorLogsAnonymous(n, stk) == <<LogEntry(NoNode, "error", "Error")>>

\* The entries written between the Error of node n and the end of execute().
ErrorLogs(n, stk) ==
    IF impl = "ts"
    THEN <<LogEntry(n, "error", "Error executing node")>> \o UnwindLogs(stk)
    ELSE <<LogEntry(NoNode, "error", "Error")>>

\* The Error leaves every executeNode call of the chain stk unfinished; the
\* calls of another execute() that is suspended are not part of the chain.
FailAll(xs, stk) ==
    [i \in 1..Len(xs) |->
        IF /\ xs[i].state \in {"handler", "routing"}
           /\ \E k \in 1..Len(stk) : stk[k].exec = i
        THEN [xs[i] EXCEPT !.state = "failed"] ELSE xs[i]]

NewExec(n, parent, via, st, res) ==
    [node |-> n, parent |-> parent, via |-> via, state |-> st, res |-> res,
     seen |-> IF parent = 0 THEN Absent ELSE results[execs[parent].node]]

\* The result is not written to the result table.
StoreResultsNever(n, r) == results

\* The context after the handler of n returned result r with variables vs:
\* engine.ts stores the result under the node id and under the node label.
StoreResults(n, r) == IF impl = "ts" THEN [results EXCEPT ![n] = r] ELSE results
\* The result is not written under the node's label.
StoreVariablesUnlabelled(n, r, vs) == vs

StoreVariables(n, r, vs) ==
    IF impl = "ts" THEN [vs EXCEPT ![LabelOf[n]] = r] ELSE vs
CompletedLogs(n) ==
    IF impl = "ts" THEN <<LogEntry(n, "info", "Node completed")>> ELSE <<>>

\* executeNode(n), called by exec parent along edge via, with stk the
\* callers' frames and pend the triggers still to run: up to the first
\* await that suspends, or to the end of execute() when the handler raises.
EnterNode(n, parent, via, stk, pend) ==
    \E h \in {Handler(n, variables)} :
    LET entered == logs \o <<LogEntry(n, "info", "Executing node")>> \o h.logs
        e == Len(execs) + 1
    IN  CASE h.kind = "ok" ->
               /\ execs' = Append(execs, NewExec(n, parent, via, "routing", h.result))
               /\ stack' = Append(stk, [exec |-> e, idx |-> 1])
               /\ variables' = StoreVariables(n, h.result, h.vars)
               /\ results' = StoreResults(n, h.result)
               /\ logs' = entered \o CompletedLogs(n)
               /\ pending' = pend
               /\ UNCHANGED <<pc, outcome, isRunning>>
          [] h.kind = "suspend" ->
               /\ execs' = Append(execs, NewExec(n, parent, via, "handler", Undefined))
               /\ stack' = Append(stk, [exec |-> e, idx |-> 1])
               /\ variables' = h.vars
               /\ logs' = entered
               /\ pending' = pend
               /\ UNCHANGED <<results, pc, outcome, isRunning>>
          [] OTHER ->
               /\ execs' = FailAll(Append(execs, NewExec(n, parent, via, "raised", Undefined)),
                                  stk)
               /\ stack' = <<>>
               /\ variables' = h.vars
               /\ logs' = entered \o ErrorLogs(n, stk)
               /\ pending' = <<>>
               /\ pc' = "done"
               /\ outcome' = FailureOutcome
               /\ isRunning' = FALSE
               /\ UNCHANGED results

\* execute(): fresh context, the start entry, trigger discovery.
Execute ==
    /\ pc = "idle"
    /\ variables' = EmptyVars
    /\ results' = NoResults
    /\ calls' = calls + 1
    /\ run' = calls + 1
    /\ owner' = calls + 1
    /\ UNCHANGED <<impl, nodes, edges, stack, execs, parked, aside>>
    /\ IF Triggers = <<>>
       THEN /\ logs' = NoTriggerLogs
            /\ pc' = "done"
            /\ outcome' = FailureOutcome
            /\ isRunning' = FALSE
            /\ pending' = <<>>
       ELSE /\ logs' = StartLogs
            /\ pc' = "running"
            /\ outcome' = "none"
            /\ isRunning' = (impl = "js")
            /\ pending' = Triggers

\* for (const trigger of triggers) await this.executeNode(trigger)
StartTrigger ==
    /\ pc = "running"
    /\ stack = <<>>
    /\ pending # <<>>
    /\ EnterNode(Head(pending), 0, 0, <<>>, Tail(pending))
    /\ UNCHANGED <<impl, nodes, edges, calls, run, owner, parked, aside>>

\* Node n is the node of a call that is in progress.
OnCallPath(n) == \E i \in 1..Len(stack) : execs[stack[i].exec].node = n

\* A visited set: a node of a call in progress is not dispatched again.
TargetUnvisited(t) == (impl = "js" \/ t \in NodeIds) /\ ~OnCallPath(t)

TargetExists(t) == impl = "js" \/ t \in NodeIds

\* One iteration of the for-loop over the outgoing edges: the edge fires.
RouteFire ==
    /\ pc = "running"
    /\ stack # <<>>
    /\ Len(stack) < MaxDepth
    /\ LET c == Current(stack)
           f == stack[c]
           ex == execs[f.exec]
           out == Outgoing(ex.node)
       IN  /\ ex.state = "routing"
           /\ f.idx <= Len(out)
           /\ ShouldExecute(nodes[ex.node].type, ex.res, edges[out[f.idx]].label)
           /\ TargetExists(edges[out[f.idx]].target)
           /\ EnterNode(edges[out[f.idx]].target, f.exec, out[f.idx],
                        [stack EXCEPT ![c].idx = f.idx + 1], pending)
    /\ UNCHANGED <<impl, nodes, edges, calls, run, owner, parked, aside>>

\* One iteration of the for-loop: the edge does not fire.
RouteSkip ==
    /\ pc = "running"
    /\ stack # <<>>
    /\ LET c == Current(stack)
           f == stack[c]
           ex == execs[f.exec]
           out == Outgoing(ex.node)
       IN  /\ ex.state = "routing"
           /\ f.idx <= Len(out)
           /\ ~(/\ ShouldExecute(nodes[ex.node].type, ex.res, edges[out[f.idx]].label)
                /\ TargetExists(edges[out[f.idx]].target))
           /\ stack' = [stack EXCEPT ![c].idx = f.idx + 1]
    /\ UNCHANGED <<impl, nodes, edges, pc, pending, variables, results, logs,
                   outcome, isRunning, execs, calls, run, owner, parked, aside>>

\* The for-loop is exhausted: executeNode returns to its caller.
Return ==
    /\ pc = "running"
    /\ stack # <<>>
    /\ LET f == stack[Len(stack)]
           ex == execs[f.exec]
       IN  /\ ex.state = "routing"
           /\ f.idx > Len(Outgoing(ex.node))
           /\ execs' = [execs EXCEPT ![f.exec].state = "returned"]
           /\ stack' = SubSeq(stack, 1, Len(stack) - 1)
    /\ UNCHANGED <<impl, nodes, edges, pc, pending, variables, results, logs,
                   outcome, isRunning, calls, run, owner, parked, aside>>

\* setTimeout of a delay action fires: the handler returns true.
TimerFire ==
    /\ pc = "running"
    /\ \E i \in 1..Len(stack) :
          /\ execs[stack[i].exec].state = "handler"
          /\ execs' = [execs EXCEPT ![stack[i].exec].state = "routing",
                                    ![stack[i].exec].res = Bool(TRUE)]
          /\ results' = StoreResults(execs[stack[i].exec].node, Bool(TRUE))
          /\ variables' = StoreVariables(execs[stack[i].exec].node, Bool(TRUE), variables)
          /\ logs' = logs \o CompletedLogs(execs[stack[i].exec].node)
    /\ UNCHANGED <<impl, nodes, edges, pc, pending, stack, outcome, isRunning,
                   calls, run, owner, parked, aside>>

\* Every trigger has returned: the completion entry and the success outcome.
Complete ==
    /\ pc = "running"
    /\ stack = <<>>
    /\ pending = <<>>
    /\ logs' = Append(logs, LogEntry(NoNode, "info", "Execution completed"))
    /\ pc' = "done"
    /\ outcome' = "success"
    /\ isRunning' = FALSE
    /\ UNCHANGED <<impl, nodes, edges, pending, stack, variables, results, execs,
                   calls, run, owner, parked, aside>>

Next ==
    \/ Execute
    \/ StartTrigger
    \/ RouteFire
    \/ RouteSkip
    \/ Return
    \/ TimerFire
    \/ Complete

Spec == Init /\ [][Next]_vars

\* The engine before execute() on a chain, a node with two incoming paths,
\* a cycle through the first node and a cycle behind the first node.
InitFair ==
    /\ impl \in {"ts", "js"}
    /\ edges \in { <<Edge(1, 2, "none"), Edge(2, 3, "true")>>,
                   <<Edge(1, 2, "none"), Edge(1, 3, "none"), Edge(2, 3, "none")>>,
                   <<Edge(1, 2, "none"), Edge(2, 3, "none"), Edge(3, 1, "none")>>,
                   <<Edge(1, 2, "none"), Edge(2, 3, "none"), Edge(3, 2, "none")>> }
    /\ nodes \in [1..3 -> { Node("trigger", "x10"), Node("action", "delay"),
                            Node("condition", "lt5"), Node("operator", "bogus") }]
    /\ pc = "idle"
    /\ pending = <<>>
    /\ stack = <<>>
    /\ variables = EmptyVars
    /\ results = NoResults
    /\ logs = <<>>
    /\ outcome = "none"
    /\ isRunning = FALSE
    /\ execs = <<>>
    /\ calls = 0
    /\ run = 0
    /\ owner = 0
    /\ parked = <<>>
    /\ evaluated = NoCall
    /\ canvas = EmptyCanvas
    /\ exported = NoExport

\* The event loop: the continuation of a settled promise is run, and a
\* timer that was set fires.  A call of execute() is up to the caller.
SpecFair ==
    /\ InitFair /\ [][Next]_vars
    /\ WF_vars(StartTrigger \/ RouteFire \/ RouteSkip \/ Return \/ Complete)
    /\ WF_vars(TimerFire)

(***************************************************************************)
(* Several execute() calls on one engine.  app.js keeps one WorkflowEngine *)
(* and calls execute() on every click of the run button, which is never    *)
(* disabled: a click is served whenever no call is running on the stack,   *)
(* that is before a run, after it, or while it awaits the timer of a delay *)
(* action.  The suspended call keeps its own pending list and call chain   *)
(* (parked); context, log and isRunning are fields of the engine.  The     *)
(* React application builds a new engine per click and disables its button *)
(* while a run is executing; engine.ts never awaits a timer.               *)
(***************************************************************************)
\* Number of execute() calls and of stop() calls of one behaviour.
MaxCalls == 2
MaxStops == 1

\* The call in control awaits a timer (nothing of it is on the stack).
Suspended ==
    /\ pc = "running"
    /\ stack # <<>>
    /\ execs[stack[Len(stack)].exec].state = "handler"

\* The event loop can serve a click or a timer.
Quiescent == pc = "done" \/ Suspended

Park == IF Suspended THEN <<[run |-> run, pending |-> pending, stack |-> stack]>>
        ELSE <<>>

\* A further execute(): runWorkflow of app.js, handleExecute of the React
\* application (clearLogs, new WorkflowEngine, execute).
ExecuteAgain ==
    /\ calls >= 1
    /\ calls < MaxCalls
    /\ IF impl = "js" THEN Quiescent ELSE pc = "done"
    /\ calls' = calls + 1
    /\ run' = calls + 1
    /\ owner' = calls + 1
    /\ parked' = parked \o Park
    /\ variables' = EmptyVars
    /\ results' = NoResults
    /\ stack' = <<>>
    /\ UNCHANGED <<impl, nodes, edges, execs, aside>>
    /\ IF Triggers = <<>>
       THEN /\ logs' = NoTriggerLogs
            /\ pc' = "done"
            /\ outcome' = FailureOutcome
            /\ isRunning' = FALSE
            /\ pending' = <<>>
       ELSE /\ logs' = StartLogs
            /\ pc' = "running"
            /\ outcome' = "none"
            /\ isRunning' = (impl = "js")
            /\ pending' = Triggers

\* The timer of a suspended call that is not in control fires: the call
\* goes on where it stopped, on the engine's current context and log.
Resume ==
    /\ Quiescent
    /\ \E i \in 1..Len(parked) :
          LET p == parked[i]
              e == p.stack[Len(p.stack)].exec
              rest == [k \in 1..(Len(parked) - 1) |->
                          IF k < i THEN parked[k] ELSE parked[k + 1]]
          IN  /\ run' = p.run
              /\ pending' = p.pending
              /\ stack' = p.stack
              /\ parked' = rest \o Park
              /\ execs' = [execs EXCEPT ![e].state = "routing",
                                        ![e].res = Bool(TRUE)]
              /\ results' = StoreResults(execs[e].node, Bool(TRUE))
              /\ variables' = StoreVariables(execs[e].node, Bool(TRUE), variables)
              /\ logs' = logs \o CompletedLogs(execs[e].node)
    /\ pc' = "running"
    /\ outcome' = "none"
    /\ UNCHANGED <<impl, nodes, edges, isRunning, calls, owner, aside>>

StopEntry == LogEntry(NoNode, "info", "Execution stopped")
Stops == Cardinality({i \in 1..Len(logs) : logs[i] = StopEntry})

\* stop() of workflow-engine.js, called by the stop button of app.js.
Stop ==
    /\ impl = "js"
    /\ calls >= 1
    /\ Quiescent
    /\ Stops < MaxStops
    /\ isRunning' = FALSE
    /\ logs' = Append(logs, StopEntry)
    /\ UNCHANGED <<impl, nodes, edges, pc, pending, stack, variables, results,
                   outcome, execs, calls, run, owner, parked, aside>>

\* clearLogs of the store, called by the clear button of ExecutionPanel.
ClearLogs ==
    /\ impl = "ts"
    /\ pc # "running"
    /\ logs # <<>>
    /\ logs' = <<>>
    /\ UNCHANGED <<impl, nodes, edges, pc, pending, stack, variables, results,
                   outcome, isRunning, execs, calls, run, owner, parked, aside>>

\* The graphs of the behaviours with several calls.
RunKinds ==
    { Node("trigger", "x10"), Node("action", "delay"), Node("action", "log"),
      Node("condition", "lt5") }
RunShapes ==
    { <<Edge(1, 2, "none"), Edge(2, 3, "true")>>,
      <<Edge(1, 2, "none"), Edge(1, 3, "none")>> }

InitRuns ==
    /\ impl \in {"ts", "js"}
    /\ edges \in RunShapes
    /\ nodes \in [1..3 -> RunKinds]
    /\ pc = "idle"
    /\ pending = <<>>
    /\ stack = <<>>
    /\ variables = EmptyVars
    /\ results = NoResults
    /\ logs = <<>>
    /\ outcome = "none"
    /\ isRunning = FALSE
    /\ execs = <<>>
    /\ calls = 0
    /\ run = 0
    /\ owner = 0
    /\ parked = <<>>
    /\ evaluated = NoCall
    /\ canvas = EmptyCanvas
    /\ exported = NoExport

NextRuns ==
    \/ Execute
    \/ StartTrigger
    \/ RouteFire
    \/ RouteSkip
    \/ Return
    \/ TimerFire
    \/ Complete
    \/ ExecuteAgain
    \/ Resume
    \/ Stop
    \/ ClearLogs

SpecRuns == InitRuns /\ [][NextRuns]_vars

(***************************************************************************)
(* Calls of the evaluators.  One behaviour is one call: the function, its  *)
(* argument, the variables it reads and what it returned or raised.        *)
(***************************************************************************)
\* Longest operand list of an operator expression.
MaxOperands == 3

ValueExpr(b) == [type |-> "value", value |-> b]
ConditionExpr(cfg) == [type |-> "condition", condition |-> ConditionOf(cfg)]
OperatorExpr(op, xs) == [type |-> "operator", operator |-> op, operands |-> xs]

SeqsUpTo(S, n) == UNION {[1..k -> S] : k \in 0..n}

\* The children of the expressions evaluated: literals, a condition on $x,
\* a condition whose pattern is malformed, a condition whose comparison
\* operator is unknown, and nested operator expressions.
Operands ==
    { ValueExpr(TRUE), ValueExpr(FALSE), ConditionExpr("gt5"),
      ConditionExpr("badregex"),
      [type |-> "condition",
       condition |-> [leftOperand |-> Ref("x"), operator |-> "between",
                      rightOperand |-> Num(5)]],
      OperatorExpr("XOR", <<ValueExpr(TRUE), ValueExpr(TRUE)>>),
      OperatorExpr("NOT", <<>>) }
Expressions ==
    { OperatorExpr(op, xs) :
        op \in {"AND", "OR", "NOT", "XOR", "NAND"}, xs \in SeqsUpTo(Operands, MaxOperands) }

BuilderExpr(var, op, val) ==
    [type |-> "condition", variable |-> var, operator |-> op, value |-> val]
GroupExpr(op, xs) == [type |-> "group", operator |-> op, conditions |-> xs]

\* The children of the BooleanBuilder groups evaluated.
Conditions ==
    { BuilderExpr("x", ">", Str("5")), BuilderExpr("x", "<", Str("5")),
      BuilderExpr("x", "matches", Str(BadPattern)),
      GroupExpr("AND", <<>>),
      GroupExpr("OR", <<BuilderExpr("x", ">", Str("5")), BuilderExpr("x", "<", Str("5"))>>) }
Groups ==
    { GroupExpr(op, xs) :
        op \in {"AND", "OR", "XOR", "XNOR", "NOT"}, xs \in SeqsUpTo(Conditions, MaxOperands) }

\* The operands resolved: references, texts and values that are no text.
Values ==
    { Ref("x"), Ref("y"), Ref("zz"), Str("abc"), Str("5"), Str("true"), Str(""),
      Num(5), Bool(FALSE), Null, Undefined, Obj("o") }

\* The variables the evaluators read.
Contexts ==
    { [EmptyVars EXCEPT !["x"] = vx, !["y"] = vy] :
        vx \in {Absent, Num(10), Str("5"), Undefined}, vy \in {Absent, Bool(FALSE)} }

Called(f, a, c, o) == [fn |-> f, arg |-> a, ctx |-> c, out |-> o]

\* evaluateBooleanExpression(expression, context) of operators.ts.
EvaluateBoolean ==
    /\ impl = "ts"
    /\ evaluated = NoCall
    /\ \E e \in Expressions, c \in Contexts :
          evaluated' = Called("evaluateBooleanExpression", e, c,
                              evaluateBooleanExpression(e, c))
    /\ UNCHANGED <<impl, nodes, edges, pc, pending, stack, variables, results,
                   logs, outcome, isRunning, execs, calls, run, owner, parked,
                   canvas, exported>>

\* BooleanBuilder.evaluate(context) of js/operators.js.
EvaluateBuilder ==
    /\ impl = "js"
    /\ evaluated = NoCall
    /\ \E g \in Groups, c \in Contexts :
          evaluated' = Called("evaluate", g, c, evaluateGroup(g, c))
    /\ UNCHANGED <<impl, nodes, edges, pc, pending, stack, variables, results,
                   logs, outcome, isRunning, execs, calls, run, owner, parked,
                   canvas, exported>>

\* resolveValue(value, context) of operators.ts.
ResolveValue ==
    /\ impl = "ts"
    /\ evaluated = NoCall
    /\ \E v \in Values, c \in Contexts :
          evaluated' = Called("resolveValue", v, c, resolveValue(v, c))
    /\ UNCHANGED <<impl, nodes, edges, pc, pending, stack, variables, results,
                   logs, outcome, isRunning, execs, calls, run, owner, parked,
                   canvas, exported>>

\* evaluateExpression(expression) of workflow-engine.js on this.context.
EvaluateExpression ==
    /\ impl = "js"
    /\ evaluated = NoCall
    /\ \E v \in Values, c \in Contexts :
          evaluated' = Called("evaluateExpression", v, c, evaluateExpression(v, c))
    /\ UNCHANGED <<impl, nodes, edges, pc, pending, stack, variables, results,
                   logs, outcome, isRunning, execs, calls, run, owner, parked,
                   canvas, exported>>

\* The operations invoked: every name of the four lists and a name of none.
OperationNames ==
    MathOperations \cup StringOperations \cup ArrayOperations \cup DateOperations
        \cup {"bogus"}

\* The inputs of the operator configurations invoked.
OperatorInputs ==
    { [array |-> Ref("x")],
      [array |-> Ref("x"), value |-> Num(5)],
      [array |-> Ref("n1"), value |-> Num(10), start |-> Num(1)],
      [array |-> Arr(<<Num(5), Num(10)>>), value |-> Str("-")],
      [array |-> Num(5)],
      [str |-> Ref("x"), searchValue |-> Str("b"), start |-> Num(1)],
      [a |-> Ref("x"), b |-> Num(5)] }

OperatorConfigs ==
    { [operation |-> op, inputs |-> ins, output |-> out] :
        op \in OperationNames, ins \in OperatorInputs, out \in {"", "x", "y"} }

\* The variables the operators read: x and the variable named like the
\* label of node 1.
OperatorContexts ==
    { [EmptyVars EXCEPT !["x"] = vx, !["n1"] = vn] :
        vx \in {Absent, Arr(<<Num(10), Num(5), Num(10)>>), Str("abc"), Num(5)},
        vn \in {Absent, Arr(<<Num(5)>>)} }

\* executeOperator(config, context) of operators.ts.
ExecuteOperator ==
    /\ impl = "ts"
    /\ evaluated = NoCall
    /\ \E config \in OperatorConfigs, c \in OperatorContexts :
          evaluated' = Called("executeOperator", config, c, executeOperator(config, c))
    /\ UNCHANGED <<impl, nodes, edges, pc, pending, stack, variables, results,
                   logs, outcome, isRunning, execs, calls, run, owner, parked,
                   canvas, exported>>

\* executeNode of engine.ts on operator node n: executeOperatorNode, then
\* the result is stored under the node's label.
ExecuteOperatorNode ==
    /\ impl = "ts"
    /\ evaluated = NoCall
    /\ \E config \in OperatorConfigs, c \in OperatorContexts, n \in 1..2 :
          LET r == executeOperatorNode(config, c)
          IN  evaluated' =
                Called("executeOperatorNode", [config |-> config, node |-> n], c,
                       [throws |-> r.throws, val |-> r.val,
                        vars |-> IF r.throws THEN r.vars
                                 ELSE StoreVariables(n, r.val, r.vars)])
    /\ UNCHANGED <<impl, nodes, edges, pc, pending, stack, variables, results,
                   logs, outcome, isRunning, execs, calls, run, owner, parked,
                   canvas, exported>>

InitEval ==
    /\ impl \in {"ts", "js"}
    /\ nodes = <<>>
    /\ edges = <<>>
    /\ pc = "idle"
    /\ pending = <<>>
    /\ stack = <<>>
    /\ variables = EmptyVars
    /\ results = NoResults
    /\ logs = <<>>
    /\ outcome = "none"
    /\ isRunning = FALSE
    /\ execs = <<>>
    /\ calls = 0
    /\ run = 0
    /\ owner = 0
    /\ parked = <<>>
    /\ evaluated = NoCall
    /\ canvas = EmptyCanvas
    /\ exported = NoExport

NextEval ==
    \/ EvaluateBoolean
    \/ EvaluateBuilder
    \/ ResolveValue
    \/ EvaluateExpression
    \/ ExecuteOperator
    \/ ExecuteOperatorNode

SpecEval == InitEval /\ [][NextEval]_vars

(***************************************************************************)
(* The editors.  canvas is the graph under edit: WorkflowCanvas of         *)
(* js/workflow-canvas.js, whose connections hold the node objects          *)
(* themselves, and the store of the React application, whose edges hold    *)
(* node ids.  A node is [ref, id, type]: ref is the identity of the        *)
(* object (0 where identity plays no part), objects counts the objects     *)
(* made so far.  exported is the graph as it was written to the JSON file  *)
(* (one file per behaviour); loaded tells that the canvas is as the last   *)
(* import left it, cut counts the connections deleteNode has removed.      *)
(***************************************************************************)
\* Ids handed out per counter run, connections drawn, files imported.
MaxIds == 3
MaxConnections == 2
MaxImports == 1

CanvasTypes == {"trigger", "action", "condition"}

\* getNodeOutputs of workflow-canvas.js; an edge of onConnect has no label.
OutputsOf(ty) ==
    IF impl = "ts" THEN {"none"}
    ELSE CASE ty = "trigger" -> {"start"}
           [] ty = "condition" -> {"true", "false"}
           [] OTHER -> {"output"}

\* getNodeInputs of workflow-canvas.js: a trigger has no input port.
HasInput(ty) == impl = "ts" \/ ty # "trigger"

EndOf(node) == [ref |-> node.ref, id |-> node.id]

\* conn.from.node === node in workflow-canvas.js and workflow-engine.js;
\* edge.source === node.id in the store and engine.ts.
SameNode(end, node) ==
    IF impl = "js" THEN end.ref = node.ref ELSE end.id = node.id

Edited(c) == [c EXCEPT !.loaded = FALSE]

\* addNode: the id comes from the counter, which is then incremented.
AddNode ==
    /\ canvas.nodeIdCounter < MaxIds
    /\ \E ty \in CanvasTypes :
          canvas' = Edited([canvas EXCEPT
              !.nodes = Append(@, [ref |-> IF impl = "js" THEN canvas.objects + 1 ELSE 0,
                                   id |-> canvas.nodeIdCounter, type |-> ty]),
              !.nodeIdCounter = @ + 1,
              !.objects = IF impl = "js" THEN @ + 1 ELSE @])
    /\ UNCHANGED <<impl, nodes, edges, pc, pending, stack, variables, results,
                   logs, outcome, isRunning, execs, calls, run, owner, parked,
                   evaluated, exported>>

\* addConnection, called by handleMouseUp; onConnect of the store.
AddConnection ==
    /\ Len(canvas.connections) < MaxConnections
    /\ \E i, j \in 1..Len(canvas.nodes) :
          /\ i # j
          /\ HasInput(canvas.nodes[j].type)
          /\ impl = "ts" =>
                ~\E k \in 1..Len(canvas.connections) :
                    /\ canvas.connections[k].from.id = canvas.nodes[i].id
                    /\ canvas.connections[k].to.id = canvas.nodes[j].id
          /\ \E o \in OutputsOf(canvas.nodes[i].type) :
                canvas' = Edited([canvas EXCEPT
                    !.connections = Append(@, [from |-> EndOf(canvas.nodes[i]),
                                               output |-> o,
                                               to |-> EndOf(canvas.nodes[j])])])
    /\ UNCHANGED <<impl, nodes, edges, pc, pending, stack, variables, results,
                   logs, outcome, isRunning, execs, calls, run, owner, parked,
                   evaluated, exported>>

\* Only the connections that leave the node count as connections at it.
IncidentFrom(c, node) == SameNode(c.from, node)

\* The connection c starts or ends at the node.
Incident(c, node) == SameNode(c.from, node) \/ SameNode(c.to, node)

\* deleteNode: the node and the connections at it are filtered out.
DeleteNode ==
    /\ \E i \in 1..Len(canvas.nodes) :
          LET node == canvas.nodes[i]
              kept == SelectSeq(canvas.connections, LAMBDA c : ~Incident(c, node))
          IN  canvas' = Edited([canvas EXCEPT
                  !.nodes = SelectSeq(@, LAMBDA n : ~SameNode(EndOf(n), node)),
                  !.connections = kept,
                  !.cut = @ + Len(canvas.connections) - Len(kept)])
    /\ UNCHANGED <<impl, nodes, edges, pc, pending, stack, variables, results,
                   logs, outcome, isRunning, execs, calls, run, owner, parked,
                   evaluated, exported>>

\* deleteEdge of the store: the edge is filtered out.
DeleteEdge ==
    /\ impl = "ts"
    /\ \E k \in 1..Len(canvas.connections) :
          canvas' = Edited([canvas EXCEPT
              !.connections = [i \in 1..(Len(@) - 1) |->
                                  IF i < k THEN @[i] ELSE @[i + 1]]])
    /\ UNCHANGED <<impl, nodes, edges, pc, pending, stack, variables, results,
                   logs, outcome, isRunning, execs, calls, run, owner, parked,
                   evaluated, exported>>

\* clear of workflow-canvas.js, clearWorkflow of the store: no node and no
\* connection is left; the id counter goes on.
Clear ==
    /\ canvas' = Edited([canvas EXCEPT !.nodes = <<>>, !.connections = <<>>])
    /\ UNCHANGED <<impl, nodes, edges, pc, pending, stack, variables, results,
                   logs, outcome, isRunning, execs, calls, run, owner, parked,
                   evaluated, exported>>

\* exportWorkflow of app.js, handleSaveWorkflow: JSON.stringify of the graph.
ExportWorkflow ==
    /\ ~exported.made
    /\ exported' = [made |-> TRUE, nodes |-> canvas.nodes,
                    connections |-> canvas.connections]
    /\ UNCHANGED <<impl, nodes, edges, pc, pending, stack, variables, results,
                   logs, outcome, isRunning, execs, calls, run, owner, parked,
                   evaluated, canvas>>

\* JSON.parse makes a new object of every object written: of every node
\* of the node list, and of the two nodes written inside every connection.
ParsedNodes(base) ==
    [i \in 1..Len(exported.nodes) |->
        [exported.nodes[i] EXCEPT !.ref = base + i]]
ParsedConnections(base) ==
    [k \in 1..Len(exported.connections) |->
        [exported.connections[k] EXCEPT !.from.ref = base + 2 * k - 1,
                                        !.to.ref = base + 2 * k]]

\* importWorkflow of app.js and workflow-canvas.js (the counter restarts at
\* nodes.length); handleLoadWorkflow and loadWorkflow of the store.
ImportWorkflow ==
    /\ exported.made
    /\ canvas.imports < MaxImports
    /\ canvas' =
          IF impl = "js"
          THEN [nodes |-> ParsedNodes(canvas.objects),
                connections |->
                    ParsedConnections(canvas.objects + Len(exported.nodes)),
                nodeIdCounter |-> Len(exported.nodes),
                objects |-> canvas.objects + Len(exported.nodes)
                            + 2 * Len(exported.connections),
                imports |-> canvas.imports + 1,
                loaded |-> TRUE,
                cut |-> canvas.cut]
          ELSE [canvas EXCEPT !.nodes = exported.nodes,
                              !.connections = exported.connections,
                              !.imports = @ + 1,
                              !.loaded = TRUE]
    /\ UNCHANGED <<impl, nodes, edges, pc, pending, stack, variables, results,
                   logs, outcome, isRunning, execs, calls, run, owner, parked,
                   evaluated, exported>>

InitCanvas ==
    /\ impl \in {"ts", "js"}
    /\ nodes = <<>>
    /\ edges = <<>>
    /\ pc = "idle"
    /\ pending = <<>>
    /\ stack = <<>>
    /\ variables = EmptyVars
    /\ results = NoResults
    /\ logs = <<>>
    /\ outcome = "none"
    /\ isRunning = FALSE
    /\ execs = <<>>
    /\ calls = 0
    /\ run = 0
    /\ owner = 0
    /\ parked = <<>>
    /\ evaluated = NoCall
    /\ canvas = EmptyCanvas
    /\ exported = NoExport

NextCanvas ==
    \/ AddNode
    \/ AddConnection
    \/ DeleteNode
    \/ DeleteEdge
    \/ Clear
    \/ ExportWorkflow
    \/ ImportWorkflow

SpecCanvas == InitCanvas /\ [][NextCanvas]_vars

(***************************************************************************)
(* Properties.                                                             *)
(***************************************************************************)
Execs == 1..Len(execs)
Open(i) == execs[i].state \in {"handler", "routing"}
HandlerDone(i) == execs[i].state \in {"routing", "returned", "failed"}
Children(p) == {i \in Execs : execs[i].parent = p}
Pruned(i) == nodes[execs[i].node].type \in {"condition", "boolean"}
IsPrefix(a, b) == Len(a) <= Len(b) /\ SubSeq(b, 1, Len(a)) = a
\* The edges whose source or target names no node of the graph.
Dangling == {i \in 1..Len(edges) :
                edges[i].source \notin NodeIds \/ edges[i].target \notin NodeIds}

\* C1 (as claimed): an edge out of a condition or boolean node fires only if
\* its label is "true" and the node's result is true, or "false" and the
\* result is false; an edge with no label or another label never fires.
C1_Original ==
    \A i \in Execs :
        (execs[i].parent # 0 /\ Pruned(execs[i].parent)) =>
            LET r == Truthy(execs[execs[i].parent].res)
                l == edges[execs[i].via].label
            IN  (l = "true" /\ r) \/ (l = "false" /\ ~r)

\* The edges of the call p that its loop has fired.
Fired(p) == {execs[i].via : i \in Children(p)}

\* C1 (amended): a "true" edge out of a condition node (in engine.ts also
\* out of a boolean node) fires exactly when the result is true and a
\* "false" edge exactly when it is false; an edge with any other label
\* always fires in engine.ts and never in workflow-engine.js, which does
\* not prune the edges of boolean nodes at all.  An edge whose target names
\* no node never fires.
C1_Branch ==
    \A p \in Execs :
        LET ty == nodes[execs[p].node].type
            r == Truthy(execs[p].res)
            out == Outgoing(execs[p].node)
        IN  /\ \A k \in 1..Len(out) :
                 LET l == edges[out[k]].label
                 IN  /\ (ty = "condition" \/ (ty = "boolean" /\ impl = "ts")) =>
                           /\ (l = "true" /\ ~r) => out[k] \notin Fired(p)
                           /\ (l = "false" /\ r) => out[k] \notin Fired(p)
                           /\ (l \notin {"true", "false"} /\ impl = "js") =>
                                 out[k] \notin Fired(p)
                     /\ out[k] \in Dangling => out[k] \notin Fired(p)
                     /\ (execs[p].state = "returned" /\ out[k] \notin Dangling) =>
                           /\ (l = "true" /\ r) => out[k] \in Fired(p)
                           /\ (l = "false" /\ ~r) => out[k] \in Fired(p)
                           /\ (impl = "ts" /\ l \notin {"true", "false"}) =>
                                 out[k] \in Fired(p)
                           /\ (impl = "js" /\ ty = "boolean") => out[k] \in Fired(p)

\* A condition node with a "true" and a "false" edge has returned after
\* firing exactly one of the two.
C1_Witness ==
    /\ \E p \in Execs :
          /\ nodes[execs[p].node].type = "condition"
          /\ execs[p].state = "returned"
          /\ {edges[e].label : e \in {Outgoing(execs[p].node)[k] :
                  k \in 1..Len(Outgoing(execs[p].node))}} = {"true", "false"}
          /\ Cardinality(Children(p)) = 1

\* The nodes reachable from node n along edges.
RECURSIVE ReachFrom(_, _)
ReachFrom(S, k) ==
    IF k = 0 THEN S
    ELSE ReachFrom(S \cup {edges[i].target : i \in {j \in 1..Len(edges) : edges[j].source \in S}},
                   k - 1)
Reach(n) == ReachFrom({n}, Len(nodes)) \cap NodeIds
Count(n) == Cardinality({i \in Execs : execs[i].node = n})
Dispatched == [i \in Execs |-> execs[i].node]
NoBranchNodes == \A n \in NodeIds : nodes[n].type \notin {"condition", "boolean"}
OneTriggerRun ==
    pc = "done" /\ outcome = "success" /\ Len(Triggers) = 1 /\ NoBranchNodes

\* The depth-first walk of the edge list from node n: n, then for every edge
\* that leaves n for a node of the graph, in list order, the walk from its
\* target (paths of at most fuel edges).
RECURSIVE Walk(_, _)
RECURSIVE WalkEdges(_, _, _)
Walk(n, fuel) == <<n>> \o WalkEdges(n, 1, fuel)
WalkEdges(n, k, fuel) ==
    IF k > Len(edges) \/ fuel = 0 THEN <<>>
    ELSE (IF edges[k].source = n /\ edges[k].target \in NodeIds
          THEN Walk(edges[k].target, fuel - 1) ELSE <<>>)
         \o WalkEdges(n, k + 1, fuel)

\* C2 (as claimed): with exactly one trigger and no condition/boolean nodes,
\* one execute() dispatches every node reachable from the trigger exactly once.
C2_Original ==
    OneTriggerRun => \A n \in Reach(Triggers[1]) : Count(n) = 1

\* C2 (amended): with exactly one trigger and no condition/boolean nodes, a
\* successful execute() dispatches the nodes in the order of the depth-first
\* walk of the edge list from the trigger: every reachable node at least
\* once, and once more for every further edge path that leads to it.
C2_EdgeOrder ==
    OneTriggerRun =>
        /\ Dispatched = Walk(Triggers[1], Len(nodes))
        /\ \A n \in Reach(Triggers[1]) : Count(n) >= 1
        /\ \A n \in NodeIds \ Reach(Triggers[1]) : Count(n) = 0

\* A run of a one-trigger graph has completed in which a node with two
\* incoming paths was dispatched twice.
C2_Witness ==
    /\ OneTriggerRun
    /\ \E n \in NodeIds : Count(n) = 2
    /\ Len(execs) >= 4

\* Call a is call b or one of the calls b was (transitively) dispatched by.
RECURSIVE Anc(_, _)
Anc(a, b) == b # 0 /\ (a = b \/ Anc(a, execs[b].parent))
Siblings(i, j) == i < j /\ execs[i].parent = execs[j].parent

\* C3: the firing edges of a node are processed in the order of the edge
\* list, and everything dispatched as a consequence of one edge has started
\* and completed before the target of the next edge is dispatched: no two
\* calls are in progress unless one is on the call path of the other.
C3_DepthFirst ==
    /\ \A i, j \in Execs : (i < j /\ Open(i) /\ Open(j)) => Anc(i, j)
    /\ \A i, j \in Execs :
          (Siblings(i, j) /\ execs[i].parent # 0) =>
              /\ execs[i].via < execs[j].via
              /\ \A k \in Execs : Anc(i, k) => (k < j /\ ~Open(k))

\* A second sibling edge has fired after a first branch that spent time in a
\* delay action.
C3_Witness ==
    \E i, j, k \in Execs :
        /\ Siblings(i, j) /\ execs[i].parent # 0
        /\ Anc(i, k)
        /\ nodes[execs[k].node] = Node("action", "delay")
        /\ impl = "js"

\* The graph has no node the engine starts from: engine.ts looks for nodes
\* without incoming edge, workflow-engine.js for nodes of type trigger.
NoIncoming == {n \in NodeIds : ~(\E i \in 1..Len(edges) : edges[i].target = n)}
TypeTrigger == {n \in NodeIds : nodes[n].type = "trigger"}
StartSet == IF impl = "ts" THEN NoIncoming ELSE TypeTrigger
NoStartNode == StartSet = {}
Raisers == {i \in Execs : execs[i].state = "raised"}
RunFailed == pc = "done" /\ (NoStartNode \/ Raisers # {})

\* C4 (as claimed): execute() never rejects, whatever fails inside.
C4_Original == outcome # "rejected"

\* C4 (amended): execute() of workflow-engine.js never rejects, it turns
\* every internal failure into the {success: false, error, context} result;
\* execute() of engine.ts converts nothing, it rejects with the error.
C4_Boundary ==
    /\ RunFailed => outcome = (IF impl = "js" THEN "failure" ELSE "rejected")
    /\ (pc = "done" /\ ~RunFailed) => outcome = "success"
    /\ pc # "done" => outcome = "none"

\* workflow-engine.js has turned the Error of a node handler into a result.
C4_Witness ==
    /\ impl = "js"
    /\ outcome = "failure"
    /\ \E i \in Raisers : execs[i].parent # 0

\* C5: with no node to start from, execute() ends in the failure outcome and
\* no node was dispatched: no handler ran, no result, no variable and no
\* entry of a node was written.
C5_NoTrigger ==
    (pc # "idle" /\ NoStartNode) =>
        /\ pc = "done"
        /\ outcome \in {"failure", "rejected"}
        /\ execs = <<>>
        /\ results = NoResults
        /\ variables = EmptyVars
        /\ \A i \in 1..Len(logs) : logs[i].node = NoNode

\* engine.ts has ended on a graph in which every node has an incoming edge.
C5_Witness ==
    /\ impl = "ts"
    /\ pc = "done"
    /\ NoStartNode
    /\ Len(edges) = 3

\* C6 (as claimed): with no node to start from, the error entry is the only
\* entry the execute() call writes.
C6_Original ==
    (pc = "done" /\ NoStartNode) => (Len(logs) = 1 /\ logs[1].level = "error")

\* C6 (amended): with no node to start from, execute() writes exactly two
\* entries: the execution-started entry, then the error entry.
C6_StartThenError ==
    (pc = "done" /\ NoStartNode) =>
        /\ Len(logs) = 2
        /\ logs[1] = LogEntry(NoNode, "info", "Execution started")
        /\ logs[2].level = "error"
        /\ logs[2].node = NoNode

\* workflow-engine.js has ended on a graph without a node of type trigger.
C6_Witness ==
    /\ impl = "js"
    /\ pc = "done"
    /\ NoStartNode
    /\ Len(edges) > 0

\* The nodes execute() has started from so far.
Roots == {execs[i].node : i \in {j \in Execs : execs[j].parent = 0}}

\* C7 (as claimed): execute() starts from exactly the nodes that are the
\* target of no edge, whatever their type.
C7_Original ==
    /\ Roots \subseteq NoIncoming
    /\ outcome = "success" => Roots = NoIncoming

\* C7 (amended): engine.ts starts from exactly the nodes that are the target
\* of no edge, whatever their type; workflow-engine.js starts from exactly
\* the nodes of type trigger, whatever their edges; both in node order.
C7_Discovery ==
    /\ Roots \subseteq StartSet
    /\ outcome = "success" => Roots = StartSet
    /\ (pc = "running" /\ execs = <<>>) =>
          /\ {pending[k] : k \in 1..Len(pending)} = StartSet
          /\ \A k \in 1..(Len(pending) - 1) : pending[k] < pending[k + 1]

\* workflow-engine.js has started from a trigger that has an incoming edge
\* and has completed without starting from an action that has none.
C7_Witness ==
    /\ impl = "js"
    /\ outcome = "success"
    /\ \E n \in Roots : n \notin NoIncoming
    /\ \E n \in NoIncoming : n \notin Roots /\ nodes[n].type = "action"

ErrorEntries == {i \in 1..Len(logs) : logs[i].level = "error"}

\* C8 (as claimed): when the handler of node n raises, an error entry that
\* carries n's id is produced and the run dispatches nothing more.
C8_Original ==
    \A k \in Raisers :
        /\ \E i \in ErrorEntries : logs[i].node = execs[k].node
        /\ pc = "done" /\ stack = <<>> /\ pending = <<>>

\* The step in which a handler raises keeps what was recorded before it.
KeepsRecorded ==
    (Raisers = {} /\ Len(execs') > Len(execs) /\ execs'[Len(execs')].state = "raised") =>
        /\ IsPrefix(logs, logs')
        /\ results' = results
        /\ variables' = variables
        /\ \A i \in Execs : execs'[i].res = execs[i].res /\ execs'[i].node = execs[i].node

\* C8 (amended): when the handler of node n raises, an error entry is
\* produced (in engine.ts it carries n's id and is followed by one error
\* entry for every enclosing call; in workflow-engine.js it is a single
\* entry without a node id), no node is dispatched after that point and
\* everything recorded before the failure is kept in the engine's context
\* and log (returned by workflow-engine.js; engine.ts rejects instead).
C8_FailFast ==
    /\ [](\A k \in Raisers :
             /\ k = Len(execs)
             /\ pc = "done" /\ stack = <<>> /\ pending = <<>>
             /\ outcome \in {"failure", "rejected"}
             /\ ErrorEntries # {}
             /\ impl = "ts" => \E i \in ErrorEntries : logs[i].node = execs[k].node
             /\ impl = "js" => /\ Cardinality(ErrorEntries) = 1
                               /\ logs[Len(logs)] = LogEntry(NoNode, "error", "Error"))
    /\ [][KeepsRecorded]_vars
    /\ [][Raisers # {} => execs' = execs]_vars

\* engine.ts: a handler below the start node has raised while its caller,
\* whose result is recorded, still had a later edge in the edge list.
C8_Witness ==
    /\ impl = "ts"
    /\ \E k \in Raisers :
          /\ execs[k].parent # 0
          /\ results[execs[execs[k].parent].node] # Absent
          /\ \E e \in 1..Len(edges) :
                e > execs[k].via /\ edges[e].source = execs[execs[k].parent].node

UnknownType(i) ==
    nodes[execs[i].node].type \notin {"trigger", "action", "condition", "boolean", "operator"}
Warnings(n) == {i \in 1..Len(logs) : logs[i].level = "warning" /\ logs[i].node = n}
OutSet(n) == {Outgoing(n)[k] : k \in 1..Len(Outgoing(n))}

\* C9 (as claimed): dispatching a node of an unknown type writes a warning
\* entry, records null and does not abort the run.
C9_Original ==
    \A i \in Execs :
        UnknownType(i) =>
            /\ i \notin Raisers
            /\ Warnings(execs[i].node) # {}

\* C9 (amended): in engine.ts a node of an unknown type writes a warning
\* entry, has result null, does not abort the run, and all its outgoing
\* edges to nodes of the graph fire; in workflow-engine.js it raises an
\* Error that aborts the run with the failure result, without a warning
\* entry.
C9_UnknownType ==
    \A i \in Execs :
        UnknownType(i) =>
            /\ impl = "ts" =>
                  /\ i \notin Raisers
                  /\ Warnings(execs[i].node) # {}
                  /\ execs[i].res = Null
                  /\ results[execs[i].node] = Null
                  /\ execs[i].state = "returned" =>
                        Fired(i) = OutSet(execs[i].node) \ Dangling
            /\ impl = "js" =>
                  /\ i \in Raisers
                  /\ outcome = "failure"
                  /\ \A k \in 1..Len(logs) : logs[k].level # "warning"

\* engine.ts: a node of an unknown type has returned after firing two edges.
C9_Witness ==
    /\ impl = "ts"
    /\ \E i \in Execs :
          /\ UnknownType(i)
          /\ execs[i].state = "returned"
          /\ Cardinality(Fired(i)) = 2

\* C10 (as claimed): when a successor of n is dispatched, results[n.id]
\* holds n's result.
C10_Original ==
    \A i \in Execs :
        execs[i].parent # 0 =>
            /\ execs[i].seen # Absent
            /\ execs[i].seen = execs[execs[i].parent].res

\* The result of the latest completed handler of node n.
Completions(n) == {i \in Execs : execs[i].node = n /\ HandlerDone(i)}
LatestResult(n) ==
    IF Completions(n) = {} THEN Absent
    ELSE execs[CHOOSE i \in Completions(n) : \A j \in Completions(n) : j <= i].res

\* C10 (amended): in engine.ts, results[n.id] holds n's result before any
\* successor of n is dispatched, and holds n's latest result from then on;
\* workflow-engine.js keeps no result table: a handler's result is not
\* written to the context at all.
C10_ResultBeforeRouting ==
    /\ impl = "ts" =>
          /\ \A i \in Execs :
                execs[i].parent # 0 =>
                    /\ execs[i].seen # Absent
                    /\ execs[i].seen = execs[execs[i].parent].res
          /\ \A n \in NodeIds : results[n] = LatestResult(n)
    /\ impl = "js" => results = NoResults

\* engine.ts: the successor of a condition node has been dispatched, and a
\* node has completed twice.
C10_Witness ==
    /\ impl = "ts"
    /\ \E i \in Execs : execs[i].parent # 0 /\ execs[i].seen.t = "boolean"
    /\ \E n \in NodeIds : Cardinality(Completions(n)) = 2

(***************************************************************************)
(* Several calls on one engine.                                            *)
(***************************************************************************)
\* The execute() calls that have started and not ended.
ParkedCalls == {parked[i].run : i \in 1..Len(parked)}
InProgress == (IF pc = "running" THEN {run} ELSE {}) \cup ParkedCalls
\* The calls that await the timer of a delay action.
SuspendedCalls == (IF Suspended THEN {run} ELSE {}) \cup ParkedCalls

\* C11: every execute() call in progress works on the context and log that
\* were constructed for it: what it writes lands in no other call's context
\* and its own context is not replaced, also when a second call starts
\* while the first is suspended in a delay.
C11_Original == \A r \in InProgress : owner = r

\* C12: between the start and the end of an execute() call the log only
\* grows at its end: no clearLogs, second execute() or stop() removes,
\* reorders or replaces an entry.
C12_Original ==
    [][(pc = "running" /\ pc' = "running") => IsPrefix(logs, logs')]_vars

\* C13: after stop() was called during a run, no further node is
\* dispatched in that run.
C13_Original ==
    [][(pc = "running" /\ Stops > 0) => Len(execs') = Len(execs)]_vars

\* C14: while a call stays suspended in a delay, no node handler starts
\* and the context is not modified.
C14_Original ==
    [][\A r \in SuspendedCalls :
          r \in SuspendedCalls' =>
              (Len(execs') = Len(execs) /\ variables' = variables)]_vars

(***************************************************************************)
(* Evaluator calls.                                                        *)
(***************************************************************************)
IsCall(f) == evaluated.fn = f
OperatorCall(op) ==
    /\ IsCall("evaluateBooleanExpression")
    /\ evaluated.arg.operator = op
GroupCall(op) == IsCall("evaluate") /\ evaluated.arg.operator = op

\* What the children of the evaluated expression or group evaluate to.
ChildrenOf ==
    IF IsCall("evaluate") THEN evaluated.arg.conditions ELSE evaluated.arg.operands
Child(i) ==
    IF IsCall("evaluate")
    THEN IF ChildrenOf[i].type = "group"
         THEN evaluateGroup(ChildrenOf[i], evaluated.ctx)
         ELSE BuilderCondition(ChildrenOf[i], evaluated.ctx)
    ELSE evaluateBooleanExpression(ChildrenOf[i], evaluated.ctx)
ChildRaises == \E i \in 1..Len(ChildrenOf) : Child(i).throws
TrueChildren == {i \in 1..Len(ChildrenOf) : ~Child(i).throws /\ Child(i).val}
Odd(n) == n % 2 = 1

\* C15 (as claimed): XOR of N >= 0 children is true iff an odd number of
\* the children evaluate to true, in both evaluators.
C15_Original ==
    ((OperatorCall("XOR") \/ GroupCall("XOR")) /\ ~ChildRaises) =>
        evaluated.out = Ok(Odd(Cardinality(TrueChildren)))

\* C15 (amended): when no child raises, XOR in evaluateBooleanExpression of
\* operators.ts is the parity rule for every N >= 0; XOR of a BooleanBuilder
\* group of js/operators.js is true iff exactly one child is true, and an
\* empty group evaluates to true.  An error of a child propagates.
C15_Parity ==
    /\ OperatorCall("XOR") =>
          IF ChildRaises THEN evaluated.out.throws
          ELSE evaluated.out = Ok(Odd(Cardinality(TrueChildren)))
    /\ GroupCall("XOR") =>
          IF Len(ChildrenOf) = 0 THEN evaluated.out = Ok(TRUE)
          ELSE IF ChildRaises THEN evaluated.out.throws
          ELSE evaluated.out = Ok(Cardinality(TrueChildren) = 1)

\* evaluateBooleanExpression has returned true for an XOR of three
\* children that are all true.
C15_Witness ==
    /\ OperatorCall("XOR")
    /\ Len(ChildrenOf) = 3
    /\ Cardinality(TrueChildren) = 3
    /\ evaluated.out = Ok(TRUE)

AllChildrenTrue == \A i \in 1..Len(ChildrenOf) : ~Child(i).throws /\ Child(i).val

\* C16 (as claimed): AND is true iff all children are true, OR is true iff
\* at least one child is true, NOT is the negation of the first child,
\* whatever the further children are.
C16_Original ==
    /\ OperatorCall("AND") => ((evaluated.out = Ok(TRUE)) <=> AllChildrenTrue)
    /\ OperatorCall("OR") => ((evaluated.out = Ok(TRUE)) <=> TrueChildren # {})
    /\ (OperatorCall("NOT") /\ Len(ChildrenOf) >= 1 /\ ~Child(1).throws) =>
          evaluated.out = Ok(~Child(1).val)

\* C16 (amended): when every child evaluates without error, AND is true iff
\* all children are true, OR iff at least one child is true, and NOT is the
\* negation of the first child only (true without children); every child
\* is evaluated, so the error of any child, also of a further child of NOT,
\* is the outcome of the expression.
C16_Connectives ==
    /\ OperatorCall("AND") =>
          IF ChildRaises THEN evaluated.out.throws
          ELSE evaluated.out = Ok(AllChildrenTrue)
    /\ OperatorCall("OR") =>
          IF ChildRaises THEN evaluated.out.throws
          ELSE evaluated.out = Ok(TrueChildren # {})
    /\ OperatorCall("NOT") =>
          IF ChildRaises THEN evaluated.out.throws
          ELSE evaluated.out = Ok(IF Len(ChildrenOf) = 0 THEN TRUE ELSE ~Child(1).val)

\* NOT of a true first child and a false second child has returned false.
C16_Witness ==
    /\ OperatorCall("NOT")
    /\ Len(ChildrenOf) = 2
    /\ TrueChildren = {1}
    /\ ~ChildRaises
    /\ evaluated.out = Ok(FALSE)

IsRef(v) == v.t = "string" /\ v.d
Present(ctx, name) == name \in VarNames /\ ctx[name] # Absent

\* C17 (as claimed): an operand "$name" resolves to the variable's value
\* when the variable is present and to the operand itself when it is
\* absent; any other operand resolves to itself.
C17_Original ==
    (IsCall("resolveValue") \/ IsCall("evaluateExpression")) =>
        IF IsRef(evaluated.arg)
        THEN IF Present(evaluated.ctx, evaluated.arg.s)
             THEN evaluated.out = evaluated.ctx[evaluated.arg.s]
             ELSE evaluated.out = evaluated.arg
        ELSE evaluated.out = evaluated.arg

\* C17 (amended): resolveValue of operators.ts resolves "$name" to the
\* variable's value when the variable holds a value other than undefined
\* and to the operand itself otherwise, and any other operand to itself.
\* evaluateExpression of workflow-engine.js resolves "$name" to the
\* variable's value and to undefined when the variable is absent, null and
\* undefined to null, a text that is valid JSON to the parsed value, and
\* anything else to itself.
C17_Resolution ==
    /\ IsCall("resolveValue") =>
          IF /\ IsRef(evaluated.arg)
             /\ Present(evaluated.ctx, evaluated.arg.s)
             /\ evaluated.ctx[evaluated.arg.s] # Undefined
          THEN evaluated.out = evaluated.ctx[evaluated.arg.s]
          ELSE evaluated.out = evaluated.arg
    /\ IsCall("evaluateExpression") =>
          CASE evaluated.arg \in {Null, Undefined} -> evaluated.out = Null
            [] IsRef(evaluated.arg) ->
                 IF Present(evaluated.ctx, evaluated.arg.s)
                 THEN evaluated.out = evaluated.ctx[evaluated.arg.s]
                 ELSE evaluated.out = Undefined
            [] evaluated.arg = Str("5") -> evaluated.out = Num(5)
            [] evaluated.arg = Str("true") -> evaluated.out = Bool(TRUE)
            [] OTHER -> evaluated.out = evaluated.arg

\* resolveValue has returned the operand "$x" itself for an absent x.
C17_Witness ==
    /\ IsCall("resolveValue")
    /\ evaluated.arg = Ref("x")
    /\ ~Present(evaluated.ctx, "x")
    /\ evaluated.out = Ref("x")

(***************************************************************************)
(* The editors.                                                            *)
(***************************************************************************)
\* The connections the engine finds leaving a node of graph g.
Leaving(g, node) ==
    {k \in 1..Len(g.connections) : SameNode(g.connections[k].from, node)}
SameGraph(g, h) ==
    /\ Len(g.nodes) = Len(h.nodes)
    /\ Len(g.connections) = Len(h.connections)
    /\ \A i \in 1..Len(g.nodes) :
          g.nodes[i].id = h.nodes[i].id /\ g.nodes[i].type = h.nodes[i].type
    /\ \A k \in 1..Len(g.connections) :
          /\ g.connections[k].from.id = h.connections[k].from.id
          /\ g.connections[k].to.id = h.connections[k].to.id
          /\ g.connections[k].output = h.connections[k].output

\* C18: the graph an import leaves is the exported graph in ids, types and
\* endpoints, and the same connections leave each of its nodes.
C18_Original ==
    canvas.loaded =>
        /\ SameGraph(canvas, exported)
        /\ \A i \in 1..Len(canvas.nodes) :
              Leaving(canvas, canvas.nodes[i]) = Leaving(exported, exported.nodes[i])

\* C19 (as claimed): a graph with an edge whose source or target names no
\* node is rejected: execute() ends in the failure outcome and no node is
\* executed.
C19_Original ==
    (Dangling # {} /\ pc # "idle") =>
        /\ pc = "done"
        /\ outcome \in {"failure", "rejected"}
        /\ execs = <<>>

\* C19 (amended): engine.ts does not reject such a graph.  An edge whose
\* target names no node is skipped when its source is routed and nothing is
\* dispatched for it; an edge whose source names no node is never followed
\* but counts as an incoming edge of its target in trigger discovery; the
\* run fails only for lack of a start node or through the error of a node.
C19_DanglingIgnored ==
    (impl = "ts" /\ Dangling # {}) =>
        /\ \A i \in Execs :
              /\ execs[i].node \in NodeIds
              /\ execs[i].parent # 0 => execs[i].via \notin Dangling
        /\ Roots \subseteq NoIncoming
        /\ \A i \in 1..Len(logs) : logs[i].node \in NodeIds \cup {NoNode}
        /\ (pc = "done" /\ ~NoStartNode /\ Raisers = {}) => outcome = "success"
        /\ (pc = "done" /\ outcome # "success") => (NoStartNode \/ Raisers # {})

\* engine.ts has completed a run in which a node returned that has an
\* outgoing edge, enabled by its result, to a node that does not exist.
C19_Witness ==
    /\ impl = "ts"
    /\ outcome = "success"
    /\ \E p \in Execs :
          /\ execs[p].state = "returned"
          /\ nodes[execs[p].node].type = "condition"
          /\ \E e \in OutSet(execs[p].node) :
                /\ e \in Dangling
                /\ ShouldExecute("condition", execs[p].res, edges[e].label)

(***************************************************************************)
(* Frame of the log action.                                                *)
(***************************************************************************)
\* The step in which the handler of a log action node runs.
LogActionStep ==
    /\ Len(execs') = Len(execs) + 1
    /\ nodes[execs'[Len(execs')].node] = Node("action", "log")
    /\ execs'[Len(execs')].state = "routing"
Grown == Len(logs') > Len(logs) /\ IsPrefix(logs, logs')

\* C20 (as claimed): a log action node appends to the log, records the
\* node's result and leaves every variable as it was.
C20_Original ==
    [][LogActionStep =>
          /\ Grown
          /\ results'[execs'[Len(execs')].node] = execs'[Len(execs')].res
          /\ variables' = variables]_vars

\* C20 (amended): a log action node appends to the log.  engine.ts records
\* the node's result under the node id and also writes it to the variable
\* named by the node's label, leaving every other variable as it was;
\* workflow-engine.js leaves the context as it was and records no result.
C20_LogFrame ==
    [][LogActionStep =>
          LET n == execs'[Len(execs')].node
              r == execs'[Len(execs')].res
          IN  /\ Grown
              /\ impl = "ts" =>
                    /\ results' = [results EXCEPT ![n] = r]
                    /\ variables' = [variables EXCEPT ![LabelOf[n]] = r]
                    /\ r = Obj("logged")
              /\ impl = "js" =>
                    /\ results' = results
                    /\ variables' = variables]_vars

\* engine.ts: a log action node below a trigger that set x has run: x is
\* as the trigger set it, and the node's label names a variable that holds
\* the node's result.
C20_Witness ==
    /\ impl = "ts"
    /\ \E i \in Execs :
          /\ nodes[execs[i].node] = Node("action", "log")
          /\ execs[i].parent # 0
          /\ HandlerDone(i)
          /\ variables[LabelOf[execs[i].node]] = Obj("logged")
          /\ variables["x"] = Num(10)

(***************************************************************************)
(* Operator calls.                                                         *)
(***************************************************************************)
OperatorRun == IsCall("executeOperator")
NodeRun == IsCall("executeOperatorNode")
\* The operatorConfig of the call.
Config == IF NodeRun THEN evaluated.arg.config ELSE evaluated.arg
\* The inputs of the call as executeOperator resolved them.
ResolvedArray == resolveValue(In(Config.inputs, "array"), evaluated.ctx)

\* C21 (as claimed): an operation name outside the four lists fails, and
\* every operation of the array category, slice, length, indexOf and join
\* included, fails when its array input is not an array.
C21_Original ==
    OperatorRun =>
        /\ evaluated.arg.operation \notin (OperationNames \ {"bogus"}) =>
              evaluated.out.throws
        /\ (evaluated.arg.operation \in ArrayOperations
               /\ ResolvedArray.t # "array") => evaluated.out.throws

ResolvedInputs ==
    [key \in DOMAIN evaluated.arg.inputs |->
        resolveValue(evaluated.arg.inputs[key], evaluated.ctx)]

\* C29 (as claimed): an operation of the array category invoked through
\* executeOperator with an array input runs the array implementation, also
\* under the names the string category shares (slice, length, indexOf, join).
C29_Original ==
    (OperatorRun /\ evaluated.arg.operation \in ArrayOperations
        /\ ResolvedArray.t = "array") =>
        evaluated.out = executeArrayOperation(evaluated.arg.operation, ResolvedInputs)

(***************************************************************************)
(* Identifiers and references of the graph under edit.                     *)
(***************************************************************************)
\* C22 (as claimed): after any sequence of addNode, deleteNode,
\* exportWorkflow/importWorkflow and clear, no two nodes of the graph have
\* the same id.
C22_Original ==
    \A i, j \in 1..Len(canvas.nodes) :
        i # j => canvas.nodes[i].id # canvas.nodes[j].id

\* The end of a connection is a node of the graph.
Attached(end) == \E i \in 1..Len(canvas.nodes) : SameNode(end, canvas.nodes[i])

\* C23: after any sequence of addNode, onConnect, deleteNode, deleteEdge
\* and clearWorkflow from the empty graph (no file loaded), the source and
\* the target of every edge are nodes of the graph: deleteNode removes
\* every edge at the node it deletes.
C23_NoDanglingEdge ==
    canvas.imports = 0 =>
        \A k \in 1..Len(canvas.connections) :
            /\ Attached(canvas.connections[k].from)
            /\ Attached(canvas.connections[k].to)

\* The store holds an edge after deleteNode has removed a node together
\* with an edge at it.
C23_Witness ==
    /\ impl = "ts"
    /\ canvas.imports = 0
    /\ canvas.cut >= 1
    /\ Len(canvas.connections) >= 1

(***************************************************************************)
(* The setVariable action.                                                 *)
(***************************************************************************)
\* The step in which the handler of a setVariable action node runs.
SetVariableStep ==
    /\ Len(execs') = Len(execs) + 1
    /\ nodes[execs'[Len(execs')].node] = Node("action", "setVariable")
    /\ execs'[Len(execs')].state = "routing"

\* C24 (as claimed): a setVariable action whose value is "$x", run while x
\* is defined, assigns the current value of x to its variable.
C24_Original ==
    [][(SetVariableStep /\ Present(variables, "x")) =>
          variables'["y"] = variables["x"]]_vars

(***************************************************************************)
(* Order of evaluation.                                                    *)
(***************************************************************************)
RaisingChildren == {i \in 1..Len(ChildrenOf) : Child(i).throws}
FirstChildError == Child(CHOOSE i \in RaisingChildren : \A j \in RaisingChildren : i <= j)
Connective ==
    \/ OperatorCall("AND") \/ OperatorCall("OR")
    \/ OperatorCall("NOT") \/ OperatorCall("XOR")

\* C25: every child of an AND/OR/NOT/XOR expression is evaluated, in list
\* order, before the results are combined: when a child raises, the
\* evaluation fails with the error of the first child that raises, also
\* when an earlier child decides AND (false) or OR (true); it fails
\* through its children in no other case.
C25_Eager ==
    Connective =>
        IF RaisingChildren # {} THEN evaluated.out = FirstChildError
        ELSE ~evaluated.out.throws

\* OR of a true child and a condition with an unknown comparison operator
\* has failed with the error of the condition.
C25_Witness ==
    /\ OperatorCall("OR")
    /\ Len(ChildrenOf) >= 2
    /\ Child(1) = Ok(TRUE)
    /\ Child(2) = RaiseWith("Unknown comparison operator")
    /\ evaluated.out = RaiseWith("Unknown comparison operator")

(***************************************************************************)
(* Frame of the operator node.                                             *)
(***************************************************************************)
\* The call was given an array that it read from the variable Source.
Source == ArraySource(Config, evaluated.ctx)
FromVariable == Source # "" /\ evaluated.ctx[Source].t = "array"

\* C26 (as claimed): an operator leaves the array that was passed in as it
\* was, and the operator node leaves the variable the array was read from
\* as it was unless its output variable names that variable.
C26_Original ==
    /\ (OperatorRun /\ ResolvedArray.t = "array") =>
          evaluated.out.array = ResolvedArray
    /\ (NodeRun /\ FromVariable /\ Config.output # Source) =>
          evaluated.out.vars[Source] = evaluated.ctx[Source]

\* C26 (amended): an operator of operators.ts leaves the array that was
\* passed in as it was.  After an operator node of engine.ts the variable
\* the array was read from holds the node's result when the node returned
\* and its label names that variable, otherwise the result when the node
\* returned and its output variable names it, and what it held before in
\* every other case.
C26_ArrayFrame ==
    /\ (OperatorRun /\ ResolvedArray.t = "array") =>
          evaluated.out.array = ResolvedArray
    /\ (NodeRun /\ FromVariable) =>
          evaluated.out.vars[Source] =
              IF ~evaluated.out.throws
                    /\ Source \in {LabelOf[evaluated.arg.node], Config.output}
              THEN evaluated.out.val
              ELSE evaluated.ctx[Source]

\* An operator node has sorted the array of x into y: y holds 10, 10, 5
\* (the order of the texts) and x holds 10, 5, 10 as before.
C26_Witness ==
    /\ NodeRun
    /\ Config.operation = "sort"
    /\ Source = "x"
    /\ Config.output = "y"
    /\ evaluated.ctx["x"] = Arr(<<Num(10), Num(5), Num(10)>>)
    /\ evaluated.out.vars["y"] = Arr(<<Num(10), Num(10), Num(5)>>)
    /\ evaluated.out.vars["x"] = evaluated.ctx["x"]

(***************************************************************************)
(* The log of the returned context.                                        *)
(***************************************************************************)
\* execute() of engine.ts has resolved with its context.
Resolved == impl = "ts" /\ pc = "done" /\ outcome = "success"

\* C27 (as claimed): the entries delivered to onLog during the run are, in
\* the same order, the logs of the context execute() returns.
C27_Original == Resolved => getContext.logs = logs

(***************************************************************************)
(* The error entries of a failure.                                         *)
(***************************************************************************)
\* The node ids of the calls from call k up to the trigger, innermost first.
RECURSIVE CallPath(_)
CallPath(k) == IF k = 0 THEN <<>> ELSE <<execs[k].node>> \o CallPath(execs[k].parent)

\* The node ids of the error-level entries, in the order of the log.
IsError(entry) == entry.level = "error"
ErrorIds == [i \in 1..Len(SelectSeq(logs, IsError)) |-> SelectSeq(logs, IsError)[i].node]

\* C30 (as claimed): the failure of a node produces exactly one error
\* entry, under the id of the failing node, and none under another id.
C30_Original == \A k \in Raisers : ErrorIds = <<execs[k].node>>

\* C30 (amended): the failure of a node produces in engine.ts one error
\* entry under the id of the failing node followed by one under the id of
\* every caller on the call path, innermost first, and in
\* workflow-engine.js one error entry that carries no node id.
C30_ErrorTrail ==
    \A k \in Raisers : ErrorIds = IF impl = "ts" THEN CallPath(k) ELSE <<NoNode>>

\* A node at depth three has failed in engine.ts: three error entries, the
\* last one under the id of the trigger.
C30_Witness ==
    /\ impl = "ts"
    /\ \E k \in Raisers :
          /\ Len(CallPath(k)) = 3
          /\ ErrorIds = CallPath(k)
          /\ ErrorIds[3] # execs[k].node

(***************************************************************************)
(* Termination.                                                            *)
(***************************************************************************)
\* No path of edges leads from a node back to it.
Successors(n) == {edges[i].target : i \in {j \in 1..Len(edges) : edges[j].source = n}}
Acyclic == \A n \in NodeIds : n \notin ReachFrom(Successors(n), Len(nodes))

\* The loop of the innermost call stands at edge e, which fires and leads
\* to a node of the graph.
AtFiringEdge(e) ==
    /\ pc = "running" /\ stack # <<>> /\ Len(stack) < MaxDepth
    /\ LET f == stack[Len(stack)]
           ex == execs[f.exec]
       IN  /\ ex.state = "routing"
           /\ f.idx <= Len(Outgoing(ex.node))
           /\ e = Outgoing(ex.node)[f.idx]
           /\ ShouldExecute(nodes[ex.node].type, ex.res, edges[e].label)
           /\ edges[e].target \in NodeIds

\* The next step is the call of executeNode for the target of edge e.
Dispatches(e) ==
    /\ Len(execs') = Len(execs) + 1
    /\ execs'[Len(execs')].node = edges[e].target
    /\ execs'[Len(execs')].parent = stack[Len(stack)].exec

\* A node is the node of two calls in progress.
Revisited ==
    \E i, j \in 1..Len(stack) :
        i < j /\ execs[stack[i].exec].node = execs[stack[j].exec].node

\* C28: on a graph without a cycle a run that has started ends, with the
\* success or the failure outcome, when promises and delay timers are
\* served; a firing edge whose target is the node of a call in progress
\* dispatches that node again, so a run that does not end has gone into
\* the recursion of a cycle.
C28_Termination ==
    /\ (Acyclic /\ pc = "running") ~> (pc = "done" /\ outcome # "none")
    /\ [][\A e \in 1..Len(edges) :
             (AtFiringEdge(e) /\ OnCallPath(edges[e].target)) => Dispatches(e)]_vars
    /\ (pc = "running") ~> (pc = "done" \/ (Revisited /\ Len(stack) = MaxDepth))

\* The run on the graph 1 -> 2 -> 3 -> 2 has dispatched node 2 from node 3
\* while the first call for node 2 is in progress.
C28_Witness ==
    /\ pc = "running"
    /\ ~Acyclic
    /\ Revisited
    /\ \E i \in 1..Len(stack) :
          /\ execs[stack[i].exec].node = 2
          /\ i + 2 <= Len(stack)
          /\ execs[stack[i + 2].exec].node = 2

====
